---------------------------- MODULE Spec2Model ----------------------------
(***************************************************************************)
(* A model of src/app.py, the MEP proposal generator: a Streamlit script   *)
(* that is re-run from top to bottom on every user interaction.  The form  *)
(* widgets are the state; a click on "Generate" collects the form_data     *)
(* dictionary, assembles the document (create_proposal_document), saves it *)
(* to a buffer and offers it for download, or reports the exception.       *)
(*                                                                         *)
(* A text value (Python str) is a sequence of one-character strings, so    *)
(* that split, strip, replace, float() and the ",.0f" format are computed  *)
(* character by character as the code computes them.                       *)
(***************************************************************************)
EXTENDS Integers, Sequences, FiniteSets, TLC

\* ------------------------------------------------------------------------
\* Bounds of the model
\* ------------------------------------------------------------------------

\* longest client contact name the user types (characters)
MaxLen == 2

\* ------------------------------------------------------------------------
\* The state of one browser session of the app
\* ------------------------------------------------------------------------

VARIABLES
    form,               \* the value of every widget
    session_form_data,  \* st.session_state.form_data
    touched,            \* history: the checked boxes the user checked, in the order checked
    generate_disabled,  \* the disabled argument of the Generate button, as rendered
    warning,            \* the field names the missing-information warning lists
    pc,                 \* where the script is inside the button's branch
    form_data,          \* the dictionary collected in this run (at most one)
    progress_bar,       \* [state, value] of st.progress in this run
    exc,                \* the exception raised inside the try block (at most one)
    doc,                \* the document create_proposal_document returned (at most one)
    buffer,             \* the BytesIO the document was saved to (at most one)
    filename,           \* the file name built in this run (at most one)
    shown,              \* the messages this run has put on the page
    download            \* the download button of this run (at most one)

vars ==
    <<form, session_form_data, touched, generate_disabled, warning, pc, form_data,
      progress_bar, exc, doc, buffer, filename, shown, download>>

\* ------------------------------------------------------------------------
\* Python str operations, on sequences of characters
\* ------------------------------------------------------------------------

Digits == <<"0", "1", "2", "3", "4", "5", "6", "7", "8", "9">>

IsDigit(c) == \E i \in 1..10 : Digits[i] = c

DigitVal(c) == (CHOOSE i \in 1..10 : Digits[i] = c) - 1

\* str.isspace for one character
IsSpace(c) == c \in {" ", "\t"}

\* the truth value of a str: non-empty (whitespace counts as content)
Truthy(t) == t # <<>>

\* s.replace(c, '') for a single character c
Remove(t, c) == SelectSeq(t, LAMBDA x : x # c)

\* s.replace(c, d) for single characters c, d
Replace(t, c, d) == [i \in 1..Len(t) |-> IF t[i] = c THEN d ELSE t[i]]

RECURSIVE LStrip(_)
LStrip(t) == IF t # <<>> /\ IsSpace(Head(t)) THEN LStrip(Tail(t)) ELSE t

RECURSIVE RStrip(_)
RStrip(t) ==
    IF t # <<>> /\ IsSpace(t[Len(t)]) THEN RStrip(SubSeq(t, 1, Len(t) - 1)) ELSE t

\* s.strip()
Strip(t) == RStrip(LStrip(t))

\* s.split() with no separator: the maximal runs of non-whitespace characters
RECURSIVE SplitFrom(_, _, _)
SplitFrom(t, word, acc) ==
    IF t = <<>>
    THEN IF word = <<>> THEN acc ELSE Append(acc, word)
    ELSE IF IsSpace(Head(t))
         THEN SplitFrom(Tail(t), <<>>, IF word = <<>> THEN acc ELSE Append(acc, word))
         ELSE SplitFrom(Tail(t), Append(word, Head(t)), acc)

Split(t) == SplitFrom(t, <<>>, <<>>)

RECURSIVE Pow10(_)
Pow10(n) == IF n = 0 THEN 1 ELSE 10 * Pow10(n - 1)

RECURSIVE DigitsToNat(_)
DigitsToNat(t) ==
    IF t = <<>> THEN 0 ELSE 10 * DigitsToNat(SubSeq(t, 1, Len(t) - 1)) + DigitVal(t[Len(t)])

RECURSIVE NatToDigits(_)
NatToDigits(n) ==
    IF n < 10 THEN <<Digits[n + 1]>> ELSE Append(NatToDigits(n \div 10), Digits[(n % 10) + 1])

\* ------------------------------------------------------------------------
\* Numbers.  A Python float is modelled as an exact decimal
\* [neg, num, den]: (-1)^neg * num / den with den a power of ten.  The fee
\* inputs of the model have few digits, where the float and the decimal
\* agree (a tie x.5 is exactly representable in binary).
\* ------------------------------------------------------------------------

NoFloat == [ok |-> FALSE, neg |-> FALSE, num |-> 0, den |-> 1]

\* float(s) for the decimal notation [ws][+-]digits[.digits][ws]; anything else
\* raises ValueError (ok = FALSE).  Exponents, "inf", "nan" and "_" are outside
\* the inputs of the model.
ParseFloat(s) ==
    LET t    == Strip(s)
        sgn  == t # <<>> /\ Head(t) \in {"-", "+"}
        body == IF sgn THEN Tail(t) ELSE t
        dots == {i \in 1..Len(body) : body[i] = "."}
        dot  == IF dots = {} THEN Len(body) + 1 ELSE CHOOSE i \in dots : TRUE
        ip   == SubSeq(body, 1, dot - 1)
        fp   == SubSeq(body, dot + 1, Len(body))
        wellformed ==
            /\ Cardinality(dots) <= 1
            /\ \A i \in 1..Len(ip) : IsDigit(ip[i])
            /\ \A i \in 1..Len(fp) : IsDigit(fp[i])
            /\ Len(ip) + Len(fp) > 0
    IN  IF wellformed
        THEN [ok  |-> TRUE,
              neg |-> (sgn /\ Head(t) = "-"),
              num |-> DigitsToNat(ip) * Pow10(Len(fp)) + DigitsToNat(fp),
              den |-> Pow10(Len(fp))]
        ELSE NoFloat

\* round to the nearest integer, ties to even: what the ".0f" format does
RoundHalfEven(num, den) ==
    LET q == num \div den
        r == num % den
    IN  IF 2 * r < den THEN q
        ELSE IF 2 * r > den THEN q + 1
        ELSE IF q % 2 = 0 THEN q ELSE q + 1

\* the "," option of the format: a comma before every group of three digits
RECURSIVE Group3(_)
Group3(d) ==
    IF Len(d) <= 3 THEN d
    ELSE Group3(SubSeq(d, 1, Len(d) - 3)) \o <<",">> \o SubSeq(d, Len(d) - 2, Len(d))

\* f"{x:,.0f}" for the float x
FormatComma0f(x) ==
    (IF x.neg THEN <<"-">> ELSE <<>>) \o Group3(NatToDigits(RoundHalfEven(x.num, x.den)))

\* x + y on the decimals
FloatAdd(x, y) ==
    LET sx == (IF x.neg THEN 0 - x.num ELSE x.num) * y.den
        sy == (IF y.neg THEN 0 - y.num ELSE y.num) * x.den
        s  == sx + sy
    IN  [ok |-> TRUE, neg |-> s < 0, num |-> IF s < 0 THEN 0 - s ELSE s, den |-> x.den * y.den]

FloatZero == [ok |-> TRUE, neg |-> FALSE, num |-> 0, den |-> 1]

\* x > 0
FloatPositive(x) == ~x.neg /\ x.num > 0

\* ------------------------------------------------------------------------
\* Helper functions of app.py
\* ------------------------------------------------------------------------

\* validate_currency(value): <<is_valid, cleaned>>
validate_currency(value) ==
    IF ~Truthy(value) THEN [is_valid |-> TRUE, cleaned |-> <<>>]
    ELSE LET cleaned == Strip(Remove(Remove(value, "$"), ","))
         IN  IF ParseFloat(cleaned).ok
             THEN [is_valid |-> TRUE, cleaned |-> cleaned]
             ELSE [is_valid |-> FALSE, cleaned |-> <<>>]

\* format_currency with the format "{num:.0f}": no thousands separators
format_currency_no_grouping(value) ==
    LET num == ParseFloat(Remove(Remove(value, ","), "$"))
    IN  IF num.ok
        THEN (IF num.neg THEN <<"-">> ELSE <<>>) \o NatToDigits(RoundHalfEven(num.num, num.den))
        ELSE value

\* format_currency(value): the number without "$", or the value itself when it
\* does not parse (bare except)
format_currency(value) ==
    LET num == ParseFloat(Remove(Remove(value, ","), "$"))
    IN  IF num.ok THEN FormatComma0f(num) ELSE value


\* ------------------------------------------------------------------------
\* Text constants of the form and of the assembler
\* ------------------------------------------------------------------------

Empty == <<>>

T_Mr == <<"M", "r", ".">>

T_FL == <<"F", "L">>

T_3 == <<"3">>

T_2 == <<"2">>

T_300 == <<"3", "0", "0">>

T_CdPercentages ==
    <<"2", "5", "%", ",", " ", "5", "0", "%", ",", " ", "7", "5", "%", ",", " ",
      "a", "n", "d", " ", "9", "0", "%">>

T_ProjectManager == <<"C", "l", "a", "y", "t", "o", "n", " ", "S", "c", "e", "l", "z", "i">>

T_SeniorVP ==
    <<"S", "c", "o", "t", "t", " ", "W", ".", " ", "G", "i", "l", "n", "e", "r", ",", " ", "P", "E">>

T_XXX == <<"X", "X", "X">>

T_XX == <<"X", "X">>

T_XXX000 == <<"X", "X", "X", ",", "0", "0", "0">>

T_Blank11 == <<"_", "_", "_", "_", "_", "_", "_", "_", "_", "_", "_">>

T_NotApplicable == <<"N", "o", "t", " ", "A", "p", "p", "l", "i", "c", "a", "b", "l", "e">>

T_Zero == <<"0">>

MonthNames ==
    << <<"J", "a", "n", "u", "a", "r", "y">>,
       <<"F", "e", "b", "r", "u", "a", "r", "y">>,
       <<"M", "a", "r", "c", "h">>,
       <<"A", "p", "r", "i", "l">>,
       <<"M", "a", "y">>,
       <<"J", "u", "n", "e">>,
       <<"J", "u", "l", "y">>,
       <<"A", "u", "g", "u", "s", "t">>,
       <<"S", "e", "p", "t", "e", "m", "b", "e", "r">>,
       <<"O", "c", "t", "o", "b", "e", "r">>,
       <<"N", "o", "v", "e", "m", "b", "e", "r">>,
       <<"D", "e", "c", "e", "m", "b", "e", "r">> >>

\* zero-padded decimal of width w
ZeroPad(n, w) ==
    LET d == NatToDigits(n)
    IN  [i \in 1..(IF w > Len(d) THEN w - Len(d) ELSE 0) |-> "0"] \o d

\* date.strftime("%B %d, %Y")
StrftimeBdY(date) ==
    MonthNames[date.month] \o <<" ">> \o ZeroPad(date.day, 2) \o <<",", " ">>
        \o ZeroPad(date.year, 4)

\* date.strftime("%Y%m%d")
StrftimeYmd(date) == ZeroPad(date.year, 4) \o ZeroPad(date.month, 2) \o ZeroPad(date.day, 2)

\* datetime.now(): the day the session runs on
Now == [year |-> 2024, month |-> 10, day |-> 15]

\* ------------------------------------------------------------------------
\* The form: one value per widget (tabs 1 to 5), as first rendered
\* ------------------------------------------------------------------------

WidgetDefaults ==
    [client_title |-> T_Mr, client_contact |-> Empty, company_name |-> Empty,
     address1 |-> Empty, address2 |-> Empty, proposal_date |-> Now,
     project_name |-> Empty, project_address |-> Empty, project_city |-> Empty,
     project_state |-> T_FL,
     is_new_building |-> TRUE, is_renovation |-> FALSE, separate_buildings |-> FALSE,
     core_and_shell |-> FALSE, building_stories |-> Empty, total_area |-> Empty,
     construction_phases |-> Empty, construction_budget |-> Empty,
     leed_rating |-> T_NotApplicable, unit_types |-> Empty, typical_floors |-> Empty,
     retail_core_shell |-> FALSE, retail_electrical |-> TRUE, retail_plumbing |-> TRUE,
     retail_food_beverage |-> FALSE, retail_mechanical |-> FALSE,
     hvac_centralized_chilled |-> FALSE, hvac_condenser |-> FALSE,
     hvac_rooftop_vav |-> FALSE, hvac_rooftop_no_vav |-> FALSE, hvac_vrf |-> FALSE,
     hvac_split_dx |-> FALSE, hvac_residential_highrise |-> FALSE,
     hvac_existing_reuse |-> FALSE, outside_air_unit |-> TRUE,
     exhaust_dedicated_roof |-> TRUE, exhaust_individual |-> FALSE,
     exhaust_through_oa |-> FALSE, parking_open_air |-> TRUE, parking_enclosed |-> FALSE,
     smoke_control |-> FALSE, elevator_hoistway |-> FALSE,
     water_single |-> TRUE, water_multiple |-> FALSE,
     roof_internal |-> TRUE, roof_gutters |-> FALSE, roof_storm_drain |-> TRUE,
     parking_garage_drain |-> FALSE, water_oil_separator |-> FALSE, sump_pump |-> FALSE,
     booster_pump |-> FALSE, sanitary_vent |-> TRUE, grease_waste |-> FALSE,
     natural_gas |-> FALSE, fuel_delivery |-> FALSE, civil_coordination |-> TRUE,
     existing_electrical_renovation |-> FALSE, power_receptacles |-> TRUE,
     core_shell_electrical |-> FALSE, lighting_coordination |-> TRUE,
     lightning_excluded |-> TRUE, lightning_included |-> FALSE,
     generator_excluded |-> TRUE, generator_included |-> FALSE,
     ev_excluded |-> TRUE, ev_included |-> FALSE,
     ev_ready_spaces |-> Empty, ev_capable_spaces |-> Empty,
     fire_alarm |-> TRUE, technology_design |-> TRUE,
     fire_pump_excluded |-> TRUE, fire_pump_included |-> FALSE,
     weekly_meetings |-> TRUE,
     lod_200 |-> FALSE, lod_300 |-> TRUE, lod_350 |-> FALSE, lod_400 |-> FALSE,
     revit_coordination_hours |-> Empty,
     sd_existing_survey |-> FALSE, sd_site_visit_hours |-> Empty, sd_weeks |-> T_3,
     sd_meeting_hours |-> Empty, sd_total_meetings |-> Empty,
     dd_weeks |-> Empty, dd_meeting_hours |-> Empty, dd_total_meetings |-> Empty,
     dd_rounds |-> T_2,
     cd_weeks |-> Empty, cd_meeting_hours |-> Empty, cd_total_meetings |-> Empty,
     cd_percentages |-> T_CdPercentages,
     site_visits |-> Empty, include_record_drawings |-> FALSE,
     record_drawings_hours |-> Empty,
     fee_sd |-> Empty, fee_dd |-> Empty, fee_cd |-> Empty, fee_bidding |-> Empty,
     fee_construction |-> Empty, fee_record_drawings |-> Empty,
     invoice_email |-> Empty, invoice_copy |-> Empty,
     project_manager |-> T_ProjectManager, senior_vp |-> T_SeniorVP]

\* A widget that is rendered only while its parent checkbox is checked; the
\* script's else branch (or the widget's default on its next appearance) gives
\* its value otherwise.
WidgetParent ==
    [retail_electrical |-> "retail_core_shell", retail_plumbing |-> "retail_core_shell",
     retail_food_beverage |-> "retail_core_shell", retail_mechanical |-> "retail_core_shell",
     ev_ready_spaces |-> "ev_included", ev_capable_spaces |-> "ev_included",
     sd_site_visit_hours |-> "sd_existing_survey",
     record_drawings_hours |-> "include_record_drawings",
     fee_record_drawings |-> "include_record_drawings"]

Rendered(w, f) == f \in DOMAIN WidgetParent => w[WidgetParent[f]]

\* the widget values after the user sets widget f to v and the script re-runs:
\* the children of an unchecked parent are back at their else-branch values
SetWidget(w, f, v) ==
    LET w1 == [w EXCEPT ![f] = v]
    IN  [g \in DOMAIN w |->
            IF g \in DOMAIN WidgetParent /\ WidgetParent[g] = f /\ v = FALSE
            THEN WidgetDefaults[g] ELSE w1[g]]

\* next((k for k, v in options.items() if v), default)
RECURSIVE FirstChecked(_, _)
FirstChecked(options, default) ==
    IF options = <<>> THEN default
    ELSE IF Head(options)[2] THEN Head(options)[1]
    ELSE FirstChecked(Tail(options), default)

\* hvac_system without a default
hvac_system_no_default(w) ==
    FirstChecked(<< <<"Centralized Chilled Water", w.hvac_centralized_chilled>>,
                    <<"Condenser Water", w.hvac_condenser>>,
                    <<"Rooftop Units with VAV", w.hvac_rooftop_vav>>,
                    <<"Rooftop Units without VAV", w.hvac_rooftop_no_vav>>,
                    <<"VRF", w.hvac_vrf>>,
                    <<"Split DX", w.hvac_split_dx>> >>,
                 "")

hvac_system(w) ==
    FirstChecked(<< <<"Centralized Chilled Water", w.hvac_centralized_chilled>>,
                    <<"Condenser Water", w.hvac_condenser>>,
                    <<"Rooftop Units with VAV", w.hvac_rooftop_vav>>,
                    <<"Rooftop Units without VAV", w.hvac_rooftop_no_vav>>,
                    <<"VRF", w.hvac_vrf>>,
                    <<"Split DX", w.hvac_split_dx>> >>,
                 "Centralized Chilled Water")

exhaust_system(w) ==
    FirstChecked(<< <<"Dedicated Roof Fan", w.exhaust_dedicated_roof>>,
                    <<"Individual Fans", w.exhaust_individual>>,
                    <<"Through OA Unit", w.exhaust_through_oa>> >>,
                 "Dedicated Roof Fan")

revit_lod(w) ==
    FirstChecked(<< << <<"2", "0", "0">>, w.lod_200>>, <<T_300, w.lod_300>>,
                    << <<"3", "5", "0">>, w.lod_350>>, << <<"4", "0", "0">>, w.lod_400>> >>,
                 T_300)

parking_garage(w) == IF w.parking_open_air THEN "Open-Air" ELSE "Enclosed"

water_service(w) == IF w.water_single THEN "Single Meter" ELSE "Multiple Meters"

roof_drainage(w) == IF w.roof_internal THEN "Internal Drains" ELSE "Gutters/Downspouts"

lightning_protection(w) == IF w.lightning_included THEN "Included" ELSE "Excluded"

emergency_generator(w) == IF w.generator_included THEN "Included" ELSE "Excluded"

ev_charging(w) == IF w.ev_included THEN "Included" ELSE "Excluded"

fire_pump(w) == IF w.fire_pump_included THEN "Included" ELSE "Excluded"

\* ------------------------------------------------------------------------
\* Tab 6: the required-field check
\* ------------------------------------------------------------------------

\* required_fields with the 'Project Name' entry left out
required_fields_no_project_name(w) ==
    << <<"Client Contact", w.client_contact>>,
       <<"Company Name", w.company_name>>,
       <<"Project Address", w.project_address>>,
       <<"Project City", w.project_city>> >>

\* required_fields, in the dictionary's order: <<label, value>>
required_fields(w) ==
    << <<"Client Contact", w.client_contact>>,
       <<"Company Name", w.company_name>>,
       <<"Project Name", w.project_name>>,
       <<"Project Address", w.project_address>>,
       <<"Project City", w.project_city>> >>

\* missing_fields with "if not value.strip()": a blank field counts as missing
missing_fields_stripped(w) ==
    LET rf   == required_fields(w)
        miss == SelectSeq(rf, LAMBDA p : ~Truthy(Strip(p[2])))
    IN  [i \in 1..Len(miss) |-> miss[i][1]]

\* [field for field, value in required_fields.items() if not value]
missing_fields(w) ==
    LET rf   == required_fields(w)
        miss == SelectSeq(rf, LAMBDA p : ~Truthy(p[2]))
    IN  [i \in 1..Len(miss) |-> miss[i][1]]

\* the loop of the Fee Summary tab over the fees: validate_currency on each,
\* an error for an invalid non-empty fee, float(cleaned) added otherwise
RECURSIVE FormTotalFrom(_, _)
FormTotalFrom(fees, acc) ==
    IF fees = <<>> THEN acc
    ELSE LET fee == Head(fees)
             v   == validate_currency(fee)
         IN  FormTotalFrom(Tail(fees),
                 IF ~v.is_valid /\ Truthy(fee)
                 THEN [acc EXCEPT !.valid_fees = FALSE, !.errors = Append(@, fee)]
                 ELSE IF Truthy(v.cleaned)
                 THEN [acc EXCEPT !.total = FloatAdd(@, ParseFloat(v.cleaned))]
                 ELSE acc)

\* the total of the Fee Summary tab: valid_fees, total, and the fees reported
\* as invalid
form_total(w) ==
    FormTotalFrom(<<w.fee_sd, w.fee_dd, w.fee_cd, w.fee_bidding, w.fee_construction>>
                  \o (IF w.include_record_drawings THEN <<w.fee_record_drawings>> ELSE <<>>),
                  [valid_fees |-> TRUE, total |-> FloatZero, errors |-> <<>>])

\* the fee of a task as it enters form_data
FeeOrXXX(fee) == IF Truthy(fee) THEN format_currency(fee) ELSE T_XXX

\* form_data with the retail provisions handed over whatever the retail box is
CollectFormData_unguarded(w) ==
    [date |-> StrftimeBdY(w.proposal_date),
     client_title |-> w.client_title,
     client_contact |-> w.client_contact,
     company_name |-> w.company_name,
     address1 |-> w.address1,
     address2 |-> w.address2,
     project_name |-> w.project_name,
     project_address |-> w.project_address,
     project_city |-> w.project_city,
     project_state |-> w.project_state,
     is_new_building |-> w.is_new_building,
     is_renovation |-> w.is_renovation,
     building_stories |-> w.building_stories,
     total_area |-> w.total_area,
     construction_phases |-> w.construction_phases,
     separate_buildings |-> w.separate_buildings,
     core_and_shell |-> w.core_and_shell,
     leed_rating |-> w.leed_rating,
     construction_budget |-> w.construction_budget,
     unit_types |-> w.unit_types,
     typical_floors |-> w.typical_floors,
     retail_core_shell |-> w.retail_core_shell,
     retail_electrical |-> w.retail_electrical,
     retail_plumbing |-> w.retail_plumbing,
     retail_food_beverage |-> w.retail_food_beverage,
     retail_mechanical |-> w.retail_mechanical,
     hvac_system |-> hvac_system(w),
     hvac_residential_highrise |-> w.hvac_residential_highrise,
     hvac_existing_reuse |-> w.hvac_existing_reuse,
     outside_air_unit |-> w.outside_air_unit,
     exhaust_system |-> exhaust_system(w),
     parking_garage |-> parking_garage(w),
     smoke_control |-> w.smoke_control,
     elevator_hoistway |-> w.elevator_hoistway,
     water_service |-> water_service(w),
     roof_drainage |-> roof_drainage(w),
     roof_storm_drain |-> w.roof_storm_drain,
     parking_garage_drain |-> w.parking_garage_drain,
     water_oil_separator |-> w.water_oil_separator,
     sump_pump |-> w.sump_pump,
     booster_pump |-> w.booster_pump,
     sanitary_vent |-> w.sanitary_vent,
     grease_waste |-> w.grease_waste,
     natural_gas |-> w.natural_gas,
     fuel_delivery |-> w.fuel_delivery,
     civil_coordination |-> w.civil_coordination,
     existing_electrical_renovation |-> w.existing_electrical_renovation,
     power_receptacles |-> w.power_receptacles,
     core_shell_electrical |-> w.core_shell_electrical,
     lighting_coordination |-> w.lighting_coordination,
     lightning_protection |-> lightning_protection(w),
     emergency_generator |-> emergency_generator(w),
     ev_charging |-> ev_charging(w),
     ev_ready_spaces |-> IF ev_charging(w) = "Included" THEN w.ev_ready_spaces ELSE Empty,
     ev_capable_spaces |-> IF ev_charging(w) = "Included" THEN w.ev_capable_spaces ELSE Empty,
     fire_alarm |-> w.fire_alarm,
     technology_design |-> w.technology_design,
     fire_pump |-> fire_pump(w),
     weekly_meetings |-> w.weekly_meetings,
     revit_lod |-> revit_lod(w),
     revit_coordination_hours |-> w.revit_coordination_hours,
     sd_existing_survey |-> w.sd_existing_survey,
     sd_site_visit_hours |-> IF w.sd_existing_survey THEN w.sd_site_visit_hours ELSE Empty,
     sd_weeks |-> w.sd_weeks,
     sd_meeting_hours |-> w.sd_meeting_hours,
     sd_total_meetings |-> w.sd_total_meetings,
     dd_weeks |-> w.dd_weeks,
     dd_meeting_hours |-> w.dd_meeting_hours,
     dd_total_meetings |-> w.dd_total_meetings,
     dd_rounds |-> w.dd_rounds,
     cd_weeks |-> w.cd_weeks,
     cd_meeting_hours |-> w.cd_meeting_hours,
     cd_total_meetings |-> w.cd_total_meetings,
     cd_percentages |-> w.cd_percentages,
     site_visits |-> w.site_visits,
     include_record_drawings |-> w.include_record_drawings,
     record_drawings_hours |->
         IF w.include_record_drawings THEN w.record_drawings_hours ELSE Empty,
     fee_sd |-> FeeOrXXX(w.fee_sd),
     fee_dd |-> FeeOrXXX(w.fee_dd),
     fee_cd |-> FeeOrXXX(w.fee_cd),
     fee_bidding |-> FeeOrXXX(w.fee_bidding),
     fee_construction |-> FeeOrXXX(w.fee_construction),
     fee_record_drawings |->
         IF w.include_record_drawings /\ Truthy(w.fee_record_drawings)
         THEN format_currency(w.fee_record_drawings) ELSE Empty,
     invoice_email |-> w.invoice_email,
     invoice_copy |-> w.invoice_copy,
     project_manager |-> w.project_manager,
     senior_vp |-> w.senior_vp]

\* form_data, collected when the button is pressed
CollectFormData(w) ==
    [date |-> StrftimeBdY(w.proposal_date),
     client_title |-> w.client_title,
     client_contact |-> w.client_contact,
     company_name |-> w.company_name,
     address1 |-> w.address1,
     address2 |-> w.address2,
     project_name |-> w.project_name,
     project_address |-> w.project_address,
     project_city |-> w.project_city,
     project_state |-> w.project_state,
     is_new_building |-> w.is_new_building,
     is_renovation |-> w.is_renovation,
     building_stories |-> w.building_stories,
     total_area |-> w.total_area,
     construction_phases |-> w.construction_phases,
     separate_buildings |-> w.separate_buildings,
     core_and_shell |-> w.core_and_shell,
     leed_rating |-> w.leed_rating,
     construction_budget |-> w.construction_budget,
     unit_types |-> w.unit_types,
     typical_floors |-> w.typical_floors,
     retail_core_shell |-> w.retail_core_shell,
     retail_electrical |-> IF w.retail_core_shell THEN w.retail_electrical ELSE FALSE,
     retail_plumbing |-> IF w.retail_core_shell THEN w.retail_plumbing ELSE FALSE,
     retail_food_beverage |-> IF w.retail_core_shell THEN w.retail_food_beverage ELSE FALSE,
     retail_mechanical |-> IF w.retail_core_shell THEN w.retail_mechanical ELSE FALSE,
     hvac_system |-> hvac_system(w),
     hvac_residential_highrise |-> w.hvac_residential_highrise,
     hvac_existing_reuse |-> w.hvac_existing_reuse,
     outside_air_unit |-> w.outside_air_unit,
     exhaust_system |-> exhaust_system(w),
     parking_garage |-> parking_garage(w),
     smoke_control |-> w.smoke_control,
     elevator_hoistway |-> w.elevator_hoistway,
     water_service |-> water_service(w),
     roof_drainage |-> roof_drainage(w),
     roof_storm_drain |-> w.roof_storm_drain,
     parking_garage_drain |-> w.parking_garage_drain,
     water_oil_separator |-> w.water_oil_separator,
     sump_pump |-> w.sump_pump,
     booster_pump |-> w.booster_pump,
     sanitary_vent |-> w.sanitary_vent,
     grease_waste |-> w.grease_waste,
     natural_gas |-> w.natural_gas,
     fuel_delivery |-> w.fuel_delivery,
     civil_coordination |-> w.civil_coordination,
     existing_electrical_renovation |-> w.existing_electrical_renovation,
     power_receptacles |-> w.power_receptacles,
     core_shell_electrical |-> w.core_shell_electrical,
     lighting_coordination |-> w.lighting_coordination,
     lightning_protection |-> lightning_protection(w),
     emergency_generator |-> emergency_generator(w),
     ev_charging |-> ev_charging(w),
     ev_ready_spaces |-> IF ev_charging(w) = "Included" THEN w.ev_ready_spaces ELSE Empty,
     ev_capable_spaces |-> IF ev_charging(w) = "Included" THEN w.ev_capable_spaces ELSE Empty,
     fire_alarm |-> w.fire_alarm,
     technology_design |-> w.technology_design,
     fire_pump |-> fire_pump(w),
     weekly_meetings |-> w.weekly_meetings,
     revit_lod |-> revit_lod(w),
     revit_coordination_hours |-> w.revit_coordination_hours,
     sd_existing_survey |-> w.sd_existing_survey,
     sd_site_visit_hours |-> IF w.sd_existing_survey THEN w.sd_site_visit_hours ELSE Empty,
     sd_weeks |-> w.sd_weeks,
     sd_meeting_hours |-> w.sd_meeting_hours,
     sd_total_meetings |-> w.sd_total_meetings,
     dd_weeks |-> w.dd_weeks,
     dd_meeting_hours |-> w.dd_meeting_hours,
     dd_total_meetings |-> w.dd_total_meetings,
     dd_rounds |-> w.dd_rounds,
     cd_weeks |-> w.cd_weeks,
     cd_meeting_hours |-> w.cd_meeting_hours,
     cd_total_meetings |-> w.cd_total_meetings,
     cd_percentages |-> w.cd_percentages,
     site_visits |-> w.site_visits,
     include_record_drawings |-> w.include_record_drawings,
     record_drawings_hours |->
         IF w.include_record_drawings THEN w.record_drawings_hours ELSE Empty,
     fee_sd |-> FeeOrXXX(w.fee_sd),
     fee_dd |-> FeeOrXXX(w.fee_dd),
     fee_cd |-> FeeOrXXX(w.fee_cd),
     fee_bidding |-> FeeOrXXX(w.fee_bidding),
     fee_construction |-> FeeOrXXX(w.fee_construction),
     fee_record_drawings |->
         IF w.include_record_drawings /\ Truthy(w.fee_record_drawings)
         THEN format_currency(w.fee_record_drawings) ELSE Empty,
     invoice_email |-> w.invoice_email,
     invoice_copy |-> w.invoice_copy,
     project_manager |-> w.project_manager,
     senior_vp |-> w.senior_vp]


\* ------------------------------------------------------------------------
\* The document.  The body is the sequence of paragraphs in the order the
\* assembler adds them.  A prewritten sentence is named by its id; the values
\* interpolated into it are its args.
\* ------------------------------------------------------------------------

T_Client == <<"C", "l", "i", "e", "n", "t">>

T_XXXAvenue == <<"X", "X", "X", " ", "A", "v", "e", "n", "u", "e">>

T_InsertClient ==
    <<"_", "_", "_", "I", "n", "s", "e", "r", "t", " ", "C", "l", "i", "e", "n", "t", "'", "s",
      " ", "L", "e", "g", "a", "l", " ", "E", "n", "t", "i", "t", "y", " ", "N", "a", "m", "e",
      "_", "_", "_">>

Underscores(n) == [i \in 1..n |-> "_"]

Item(kind, id, args) == [kind |-> kind, id |-> id, code |-> 0, args |-> args]

\* doc.add_paragraph(): a blank line
BlankLine == <<Item("blank", "", <<>>)>>

\* add_paragraph(doc, text) and doc.add_paragraph() with runs
Para(id, args) == <<Item("paragraph", id, args)>>

\* add_section_header(doc, text)
SectionHeader(id) == <<Item("section_header", id, <<>>)>>

\* add_bullet(doc, text)
Bullet(id, args) == <<Item("bullet", id, args)>>

\* add_sub_bullet(doc, text)
SubBullet(id, args) == <<Item("sub_bullet", id, args)>>

\* add_sub_sub_bullet(doc, text)
SubSubBullet(id, args) == <<Item("sub_sub_bullet", id, args)>>

\* the bold "Task <code> - <name>" paragraph of the Scope of Services
TaskHeading(code, name) ==
    <<[kind |-> "task_heading", id |-> name, code |-> code, args |-> <<>>]>>

\* the statements of an if block
When(cond, items) == IF cond THEN items ELSE <<>>

\* x or default
Or(t, default) == IF Truthy(t) THEN t ELSE default

\* data.get(key, default)
Get(data, key, default) == IF key \in DOMAIN data THEN data[key] ELSE default

\* data.get(key) of a checkbox value: None when the key is absent
GetFlag(data, key) == IF key \in DOMAIN data THEN data[key] ELSE FALSE

\* the salutation's last name: data['client_contact'].split()[-1] if
\* data['client_contact'] else "XXX"; [-1] of an empty list raises IndexError
SalutationRaises(data) == Truthy(data.client_contact) /\ Split(data.client_contact) = <<>>

last_name(data) ==
    IF Truthy(data.client_contact)
    THEN Split(data.client_contact)[Len(Split(data.client_contact))]
    ELSE T_XXX

\* date, recipient, Re: line, salutation and opening paragraph
LetterHead(data) ==
    Para("date", <<data.date>>) \o BlankLine
    \o Para("recipient", <<data.client_title, data.client_contact>>)
    \o Para("company_name", <<data.company_name>>)
    \o When(Truthy(Get(data, "address1", Empty)), Para("address1", <<data.address1>>))
    \o When(Truthy(Get(data, "address2", Empty)), Para("address2", <<data.address2>>))
    \o BlankLine
    \o Para("re_line", <<>>)
    \o Para("re_project_name", <<data.project_name>>)
    \o Para("re_project_location",
            <<data.project_address, data.project_city, data.project_state>>)
    \o BlankLine
    \o Para("salutation", <<data.client_title, last_name(data)>>)
    \o BlankLine
    \o Para("opening",
            <<Or(data.company_name, T_Blank11), Or(data.project_name, T_XX),
              Or(data.project_address, T_XXXAvenue), Or(data.project_city, T_XXX),
              Or(data.project_state, T_XX)>>)
    \o BlankLine

\* AssumptionBullets with the core-and-shell bullet read from a key that
\* form_data does not have ('core_shell')
AssumptionBullets_wrong_key(data) ==
    When(GetFlag(data, "is_new_building"),
         Bullet("is_new_building",
                <<Or(data.company_name, T_Client), Or(data.project_address, T_XXX),
                  Or(data.project_state, T_XX)>>))
    \o When(GetFlag(data, "is_renovation"),
            Bullet("is_renovation", <<Or(data.project_address, T_XXX)>>))
    \o When(Truthy(Get(data, "building_stories", Empty)),
            Bullet("building_stories",
                   <<Or(data.project_name, T_XXX), data.building_stories,
                     Get(data, "total_area", T_XXX000)>>))
    \o When(Truthy(Get(data, "construction_phases", Empty)),
            Bullet("construction_phases", <<data.construction_phases>>))
    \o When(GetFlag(data, "separate_buildings"), Bullet("separate_buildings", <<>>))
    \o When(GetFlag(data, "core_shell"),
            Bullet("core_and_shell", <<Or(data.project_name, T_XXX)>>))
    \o When(Truthy(Get(data, "leed_rating", Empty)) /\ data.leed_rating # T_NotApplicable,
            Bullet("leed_rating", <<data.leed_rating>>))
    \o When(Truthy(Get(data, "construction_budget", Empty)),
            Bullet("construction_budget", <<data.construction_budget>>))
    \o When(Truthy(Get(data, "unit_types", Empty)),
            Bullet("unit_types", <<data.unit_types>>))
    \o When(Truthy(Get(data, "typical_floors", Empty)),
            Bullet("typical_floors", <<data.typical_floors>>))

RECURSIVE Flatten(_)
Flatten(seqs) == IF seqs = <<>> THEN <<>> ELSE Head(seqs) \o Flatten(Tail(seqs))

\* AssumptionBullets with the checkbox bullets added in the order the boxes
\* were checked (a box checked by default first), before the other bullets
AssumptionBullets_in_checked_order(data) ==
    LET boxes == <<"is_new_building", "is_renovation", "separate_buildings", "core_and_shell">>
        checked == {touched[i] : i \in 1..Len(touched)}
        order == SelectSeq(boxes, LAMBDA f : f \notin checked)
                 \o SelectSeq(touched, LAMBDA f : \E i \in 1..Len(boxes) : boxes[i] = f)
        BoxBullet(f) ==
            CASE f = "is_new_building" ->
                     Bullet("is_new_building",
                            <<Or(data.company_name, T_Client), Or(data.project_address, T_XXX),
                              Or(data.project_state, T_XX)>>)
              [] f = "is_renovation" ->
                     Bullet("is_renovation", <<Or(data.project_address, T_XXX)>>)
              [] f = "separate_buildings" -> Bullet("separate_buildings", <<>>)
              [] f = "core_and_shell" ->
                     Bullet("core_and_shell", <<Or(data.project_name, T_XXX)>>)
    IN  Flatten([i \in 1..Len(order) |-> When(GetFlag(data, order[i]), BoxBullet(order[i]))])
        \o When(Truthy(Get(data, "building_stories", Empty)),
                Bullet("building_stories",
                       <<Or(data.project_name, T_XXX), data.building_stories,
                         Get(data, "total_area", T_XXX000)>>))
        \o When(Truthy(Get(data, "construction_phases", Empty)),
                Bullet("construction_phases", <<data.construction_phases>>))
        \o When(Truthy(Get(data, "leed_rating", Empty)) /\ data.leed_rating # T_NotApplicable,
                Bullet("leed_rating", <<data.leed_rating>>))
        \o When(Truthy(Get(data, "construction_budget", Empty)),
                Bullet("construction_budget", <<data.construction_budget>>))
        \o When(Truthy(Get(data, "unit_types", Empty)),
                Bullet("unit_types", <<data.unit_types>>))
        \o When(Truthy(Get(data, "typical_floors", Empty)),
                Bullet("typical_floors", <<data.typical_floors>>))

\* the assumption bullets selected on the Assumptions tab
AssumptionBullets(data) ==
    When(GetFlag(data, "is_new_building"),
         Bullet("is_new_building",
                <<Or(data.company_name, T_Client), Or(data.project_address, T_XXX),
                  Or(data.project_state, T_XX)>>))
    \o When(GetFlag(data, "is_renovation"),
            Bullet("is_renovation", <<Or(data.project_address, T_XXX)>>))
    \o When(Truthy(Get(data, "building_stories", Empty)),
            Bullet("building_stories",
                   <<Or(data.project_name, T_XXX), data.building_stories,
                     Get(data, "total_area", T_XXX000)>>))
    \o When(Truthy(Get(data, "construction_phases", Empty)),
            Bullet("construction_phases", <<data.construction_phases>>))
    \o When(GetFlag(data, "separate_buildings"), Bullet("separate_buildings", <<>>))
    \o When(GetFlag(data, "core_and_shell"),
            Bullet("core_and_shell", <<Or(data.project_name, T_XXX)>>))
    \o When(Truthy(Get(data, "leed_rating", Empty)) /\ data.leed_rating # T_NotApplicable,
            Bullet("leed_rating", <<data.leed_rating>>))
    \o When(Truthy(Get(data, "construction_budget", Empty)),
            Bullet("construction_budget", <<data.construction_budget>>))
    \o When(Truthy(Get(data, "unit_types", Empty)),
            Bullet("unit_types", <<data.unit_types>>))
    \o When(Truthy(Get(data, "typical_floors", Empty)),
            Bullet("typical_floors", <<data.typical_floors>>))

\* Retail Core & Shell section
RetailSection(data) ==
    When(GetFlag(data, "retail_core_shell"),
         BlankLine
         \o Bullet("retail_core_shell", <<>>)
         \o When(GetFlag(data, "retail_electrical"),
                 SubBullet("retail_electrical", <<>>)
                 \o SubSubBullet("retail_electrical_tenant_panel", <<>>))
         \o When(GetFlag(data, "retail_plumbing"), SubBullet("retail_plumbing", <<>>))
         \o When(GetFlag(data, "retail_food_beverage"),
                 SubBullet("retail_food_beverage", <<>>))
         \o When(GetFlag(data, "retail_mechanical"), SubBullet("retail_mechanical", <<>>)))

DictGet(dict, key, default) == IF key \in DOMAIN dict THEN dict[key] ELSE default

hvac_descriptions ==
    [k \in {"Centralized Chilled Water", "Condenser Water", "Rooftop Units with VAV",
            "Rooftop Units without VAV", "VRF", "Split DX"} |->
        CASE k = "Centralized Chilled Water" -> "hvac_centralized_chilled_water"
          [] k = "Condenser Water" -> "hvac_condenser_water"
          [] k = "Rooftop Units with VAV" -> "hvac_rooftop_units_with_vav"
          [] k = "Rooftop Units without VAV" -> "hvac_rooftop_units_without_vav"
          [] k = "VRF" -> "hvac_vrf"
          [] k = "Split DX" -> "hvac_split_dx"]

exhaust_descriptions ==
    [k \in {"Dedicated Roof Fan", "Individual Fans", "Through OA Unit"} |->
        CASE k = "Dedicated Roof Fan" -> "exhaust_dedicated_roof_fan"
          [] k = "Individual Fans" -> "exhaust_individual_fans"
          [] k = "Through OA Unit" -> "exhaust_through_oa_unit"]

\* HVAC Design Basis
HvacBasis(data) ==
    BlankLine
    \o Bullet("hvac_basis", <<>>)
    \o When(Get(data, "hvac_system", "") # "",
            SubBullet(DictGet(hvac_descriptions, data.hvac_system, ""), <<>>))
    \o When(GetFlag(data, "hvac_residential_highrise"),
            SubBullet("hvac_residential_highrise", <<>>))
    \o When(GetFlag(data, "hvac_existing_reuse"), SubBullet("hvac_existing_reuse", <<>>))
    \o When(GetFlag(data, "outside_air_unit"), SubBullet("outside_air_unit", <<>>))
    \o When(Get(data, "exhaust_system", "") # "",
            SubBullet(DictGet(exhaust_descriptions, data.exhaust_system, ""), <<>>))
    \o (IF Get(data, "parking_garage", "") = "Open-Air"
        THEN SubBullet("parking_garage_open_air", <<>>)
        ELSE When(Get(data, "parking_garage", "") = "Enclosed",
                  SubBullet("parking_garage_enclosed", <<>>)))
    \o When(GetFlag(data, "smoke_control"), SubBullet("smoke_control", <<>>))
    \o When(GetFlag(data, "elevator_hoistway"), SubBullet("elevator_hoistway", <<>>))

\* Plumbing Design Basis
PlumbingBasis(data) ==
    BlankLine
    \o Bullet("plumbing_basis", <<>>)
    \o (IF Get(data, "water_service", "") = "Single Meter"
        THEN SubBullet("water_service_single_meter", <<>>)
        ELSE When(Get(data, "water_service", "") = "Multiple Meters",
                  SubBullet("water_service_multiple_meters", <<>>)))
    \o When(GetFlag(data, "roof_storm_drain"), SubBullet("roof_storm_drain", <<>>))
    \o When(GetFlag(data, "parking_garage_drain"), SubBullet("parking_garage_drain", <<>>))
    \o When(GetFlag(data, "water_oil_separator"), SubBullet("water_oil_separator", <<>>))
    \o When(GetFlag(data, "sump_pump"), SubBullet("sump_pump", <<>>))
    \o When(GetFlag(data, "booster_pump"), SubBullet("booster_pump", <<>>))
    \o When(GetFlag(data, "sanitary_vent"), SubBullet("sanitary_vent", <<>>))
    \o When(GetFlag(data, "grease_waste"), SubBullet("grease_waste", <<>>))
    \o When(GetFlag(data, "natural_gas"), SubBullet("natural_gas", <<>>))
    \o When(GetFlag(data, "fuel_delivery"), SubBullet("fuel_delivery", <<>>))
    \o (IF Get(data, "roof_drainage", "") = "Internal Drains"
        THEN SubBullet("roof_drainage_internal_drains", <<>>)
        ELSE When(Get(data, "roof_drainage", "") = "Gutters/Downspouts",
                  SubBullet("roof_drainage_gutters_downspouts", <<>>)))
    \o When(GetFlag(data, "civil_coordination"), SubBullet("civil_coordination", <<>>))

\* Electrical Design Basis
ElectricalBasis(data) ==
    BlankLine
    \o Bullet("electrical_basis", <<>>)
    \o When(GetFlag(data, "existing_electrical_renovation"),
            Bullet("existing_electrical_renovation", <<>>))
    \o When(GetFlag(data, "power_receptacles"), Bullet("power_receptacles", <<>>))
    \o When(GetFlag(data, "core_shell_electrical"), Bullet("core_shell_electrical", <<>>))
    \o When(GetFlag(data, "lighting_coordination"), Bullet("lighting_coordination", <<>>))
    \o (IF Get(data, "lightning_protection", "") = "Included"
        THEN Bullet("lightning_protection_included", <<>>)
        ELSE Bullet("lightning_protection_excluded", <<>>))
    \o (IF Get(data, "emergency_generator", "") = "Included"
        THEN Bullet("emergency_generator_included", <<>>)
        ELSE Bullet("emergency_generator_excluded", <<>>))
    \o (IF Get(data, "ev_charging", "") = "Included"
        THEN Bullet("ev_charging_included",
                    <<Get(data, "ev_ready_spaces", T_XX), Get(data, "ev_capable_spaces", T_XX)>>)
             \o SubBullet("ev_ready_spaces", <<>>)
             \o SubBullet("ev_capable_spaces", <<>>)
        ELSE Bullet("ev_charging_excluded", <<>>))
    \o When(GetFlag(data, "fire_alarm"), Bullet("fire_alarm", <<>>))
    \o When(GetFlag(data, "technology_design"), Bullet("technology_design", <<>>))

\* FireProtectionBasis with the exclusion stated whatever the option is
FireProtectionBasis_always_excluded(data) ==
    BlankLine
    \o Bullet("fire_protection_basis", <<>>)
    \o SubBullet("fire_protection_schematic", <<>>)
    \o SubBullet("fire_sprinkler_permit", <<>>)
    \o When(Get(data, "fire_pump", "") = "Included", SubBullet("fire_pump_included", <<>>))
    \o SubBullet("fire_pump_excluded", <<>>)

\* Fire Protection Design Basis
FireProtectionBasis(data) ==
    BlankLine
    \o Bullet("fire_protection_basis", <<>>)
    \o SubBullet("fire_protection_schematic", <<>>)
    \o SubBullet("fire_sprinkler_permit", <<>>)
    \o (IF Get(data, "fire_pump", "") = "Included"
        THEN SubBullet("fire_pump_included", <<>>)
        ELSE SubBullet("fire_pump_excluded", <<>>))

\* Weekly Meetings and Revit
MeetingsAndRevit(data) ==
    When(GetFlag(data, "weekly_meetings"), BlankLine \o Bullet("weekly_meetings", <<>>))
    \o BlankLine
    \o Bullet("revit_intro", <<Get(data, "revit_lod", T_300)>>)
    \o SubBullet("revit_model_elements", <<>>)
    \o SubBullet("revit_interdisciplinary", <<>>)
    \o SubBullet("revit_fixtures", <<>>)
    \o When(Truthy(Get(data, "revit_coordination_hours", Empty)),
            SubBullet("revit_coordination_hours", <<data.revit_coordination_hours>>))

\* === PROJECT UNDERSTANDING AND ASSUMPTIONS ===
ProjectUnderstanding(data) ==
    SectionHeader("Project Understanding and Assumptions")
    \o Para("assumptions_intro", <<>>)
    \o BlankLine
    \o AssumptionBullets(data)
    \o RetailSection(data)
    \o HvacBasis(data)
    \o PlumbingBasis(data)
    \o ElectricalBasis(data)
    \o FireProtectionBasis(data)
    \o MeetingsAndRevit(data)


\* Task 110 - Schematic Design
Task110(data) ==
    TaskHeading(110, "Schematic Design")
    \o BlankLine
    \o Bullet("sd_kickoff_meeting", <<>>)
    \o When(GetFlag(data, "sd_existing_survey"),
            Bullet("sd_existing_survey", <<>>)
            \o Bullet("sd_site_visit_report", <<>>)
            \o When(Truthy(Get(data, "sd_site_visit_hours", Empty)),
                    Bullet("sd_site_visit_hours",
                           <<Or(data.project_name, T_XXX), data.sd_site_visit_hours>>)))
    \o Bullet("sd_weeks", <<Get(data, "sd_weeks", T_3)>>)
    \o When(Truthy(Get(data, "sd_meeting_hours", Empty)),
            Bullet("sd_meeting_hours", <<data.sd_meeting_hours>>)
            \o When(Truthy(Get(data, "sd_total_meetings", Empty)),
                    SubBullet("sd_total_meetings", <<data.sd_total_meetings>>)))
    \o Bullet("sd_load_estimates", <<>>)
    \o Bullet("sd_incoming_services", <<>>)
    \o Bullet("sd_existing_utility", <<>>)
    \o Bullet("sd_storm_water_sewer", <<>>)
    \o Bullet("sd_sanitary_sizing", <<>>)
    \o Bullet("sd_narratives", <<>>)
    \o Bullet("sd_narrative_comments", <<>>)

\* Task 120 - Design Development
Task120(data) ==
    BlankLine
    \o TaskHeading(120, "Design Development")
    \o BlankLine
    \o Bullet("dd_proceed", <<>>)
    \o When(Truthy(Get(data, "dd_weeks", Empty)), Bullet("dd_weeks", <<data.dd_weeks>>))
    \o When(Truthy(Get(data, "dd_meeting_hours", Empty)),
            Bullet("dd_meeting_hours", <<data.dd_meeting_hours>>)
            \o When(Truthy(Get(data, "dd_total_meetings", Empty)),
                    SubBullet("dd_total_meetings", <<data.dd_total_meetings>>)))
    \o Bullet("dd_calculations", <<>>)
    \o Bullet("dd_revit_model", <<>>)
    \o Bullet("dd_drawings_pdf", <<>>)
    \o Bullet("dd_rounds", <<Get(data, "dd_rounds", T_2)>>)

\* Task 130 - Construction Documents
Task130(data) ==
    BlankLine
    \o TaskHeading(130, "Construction Documents")
    \o BlankLine
    \o Bullet("cd_proceed", <<>>)
    \o When(Truthy(Get(data, "cd_weeks", Empty)), Bullet("cd_weeks", <<data.cd_weeks>>))
    \o When(Truthy(Get(data, "cd_meeting_hours", Empty)),
            Bullet("cd_meeting_hours", <<data.cd_meeting_hours>>)
            \o When(Truthy(Get(data, "cd_total_meetings", Empty)),
                    SubBullet("cd_total_meetings", <<data.cd_total_meetings>>)))
    \o Bullet("cd_finalized_equipment", <<>>)
    \o Bullet("cd_percentages", <<Get(data, "cd_percentages", T_CdPercentages)>>)
    \o Bullet("cd_submittal_comments", <<>>)
    \o Bullet("cd_90_percent_comments", <<>>)
    \o Bullet("cd_permit_response", <<>>)
    \o Bullet("cd_permit_coordination", <<>>)
    \o Bullet("cd_final_documents", <<>>)
    \o Bullet("cd_specifications", <<>>)
    \o Bullet("cd_stamped_signed", <<>>)

\* Task 140 - Bidding
Task140(data) ==
    BlankLine
    \o TaskHeading(140, "Bidding and Negotiations")
    \o BlankLine
    \o Bullet("bid_pre_bid_meeting", <<>>)
    \o Bullet("bid_review", <<>>)

\* Task 150 - Construction Phase
Task150(data) ==
    BlankLine
    \o TaskHeading(150, "Limited Construction Phase Services")
    \o BlankLine
    \o When(Truthy(Get(data, "site_visits", Empty)),
            Bullet("site_visits", <<data.site_visits>>))
    \o Bullet("ca_no_supervision", <<>>)
    \o Bullet("ca_not_responsible", <<>>)
    \o Bullet("ca_shop_drawings", <<>>)
    \o Bullet("ca_substitutes", <<>>)
    \o Bullet("ca_rfis", <<>>)

\* Task 160 written whether or not record drawings are included
Task160_always(data) ==
    BlankLine
    \o TaskHeading(160, "Record Drawings")
    \o BlankLine
    \o Para("record_drawings_text", <<>>)
    \o BlankLine
    \o When(Truthy(Get(data, "record_drawings_hours", Empty)),
            Bullet("record_drawings_hours", <<data.record_drawings_hours>>))

\* Task 160 - Record Drawings (optional)
Task160(data) ==
    When(GetFlag(data, "include_record_drawings"),
         BlankLine
         \o TaskHeading(160, "Record Drawings")
         \o BlankLine
         \o Para("record_drawings_text", <<>>)
         \o BlankLine
         \o When(Truthy(Get(data, "record_drawings_hours", Empty)),
                 Bullet("record_drawings_hours", <<data.record_drawings_hours>>)))

\* === SCOPE OF SERVICES ===
ScopeOfServices(data) ==
    BlankLine
    \o SectionHeader("Scope of Services")
    \o Task110(data)
    \o Task120(data)
    \o Task130(data)
    \o Task140(data)
    \o Task150(data)
    \o Task160(data)

additional_services ==
    <<"Commissioning Services.", "Technology Design", "Sustainable Certification",
      "LEED Design or Administration.", "Life Cycle Cost Analysis", "Cost Estimating",
      "Solar Photovoltaic Design", "Record Drawings", "Value engineering request",
      "Revit Modeling beyond LOD 300", "Project phasing or fast track",
      "Construction administration visits", "As-built drawings or record drawings",
      "Civil Engineering Services", "Structural Engineering">>

client_info_items ==
    <<"client_architectural_plans", "client_room_equipment_cut_sheets",
      "client_project_contacts", "client_plumbing_fixture_cut_sheets",
      "client_lighting_fixture_cut_sheets", "client_civil_site_drawings",
      "client_fire_hydrant_flow_test">>

\* for x in xs: add_bullet(doc, x)
RECURSIVE BulletEach(_)
BulletEach(ids) == IF ids = <<>> THEN <<>> ELSE Bullet(Head(ids), <<>>) \o BulletEach(Tail(ids))

\* === ADDITIONAL SERVICES ===, === INFORMATION PROVIDED BY CLIENT ===, === SCHEDULE ===
MiddleSections(data) ==
    BlankLine
    \o SectionHeader("Additional Services")
    \o Para("additional_intro", <<>>)
    \o BlankLine
    \o BulletEach(additional_services)
    \o BlankLine
    \o SectionHeader("Information Provided by Client")
    \o Para("client_intro", <<>>)
    \o BlankLine
    \o BulletEach(client_info_items)
    \o BlankLine
    \o SectionHeader("Schedule")
    \o Para("schedule_text", <<>>)

\* ------------------------------------------------------------------------
\* The fee table.  A cell of the first column is a task code and a name (code
\* 0: no code); the fee cell is text.
\* ------------------------------------------------------------------------

T_Dollar == <<"$">>

T_Fee == <<"F", "e", "e">>

BlankRow == [code |-> 0, name |-> "", fee |-> Empty, type |-> ""]

\* the key of data that holds each summed fee, in the order of the loop
total_fee_keys == <<"fee_sd", "fee_dd", "fee_cd", "fee_bidding", "fee_construction">>

\* total += float(str(fee).replace(',', '').replace('$', '') or 0), skipping a
\* fee that does not parse
AddFee(total, fee) ==
    LET s == Remove(Remove(fee, ","), "$")
        x == IF s = <<>> THEN FloatZero ELSE ParseFloat(s)
    IN  IF x.ok THEN FloatAdd(total, x) ELSE total

RECURSIVE SumFees(_, _)
SumFees(total, fees) ==
    IF fees = <<>> THEN total ELSE SumFees(AddFee(total, Head(fees)), Tail(fees))

\* calculate_total that never adds the record-drawings fee
calculate_total_without_record_drawings(data) ==
    LET fees == [i \in 1..Len(total_fee_keys) |-> Get(data, total_fee_keys[i], T_Zero)]
        total == SumFees(FloatZero, fees)
    IN  IF FloatPositive(total) THEN FormatComma0f(total) ELSE T_Blank11

\* calculate_total(data)
calculate_total(data) ==
    LET fees == [i \in 1..Len(total_fee_keys) |-> Get(data, total_fee_keys[i], T_Zero)]
                \o When(GetFlag(data, "include_record_drawings"),
                        <<Get(data, "fee_record_drawings", T_Zero)>>)
        total == SumFees(FloatZero, fees)
    IN  IF FloatPositive(total) THEN FormatComma0f(total) ELSE T_Blank11

\* num_rows with the two row counts exchanged
num_rows_exchanged(data) == IF ~GetFlag(data, "include_record_drawings") THEN 8 ELSE 7

\* the rows allocated for the table
num_rows(data) == IF ~GetFlag(data, "include_record_drawings") THEN 7 ELSE 8

\* fee_data with the record-drawings entry inserted at the front
fee_data_record_drawings_first(data) ==
    When(GetFlag(data, "include_record_drawings"),
         << [code |-> 160, name |-> "Record Drawings",
             fee |-> Get(data, "fee_record_drawings", T_XXX), type |-> "Lump Sum"] >>)
    \o << [code |-> 110, name |-> "Schematic Design Phase",
           fee |-> Get(data, "fee_sd", T_XXX), type |-> "Lump Sum"],
          [code |-> 120, name |-> "Design Development",
           fee |-> Get(data, "fee_dd", T_XXX), type |-> "Lump Sum"],
          [code |-> 130, name |-> "Construction Documents",
           fee |-> Get(data, "fee_cd", T_XXX), type |-> "Lump Sum"],
          [code |-> 140, name |-> "Bidding and Negotiations",
           fee |-> Get(data, "fee_bidding", T_XXX), type |-> "Lump Sum"],
          [code |-> 150, name |-> "Limited Construction Phase Services",
           fee |-> Get(data, "fee_construction", T_XXX), type |-> "Lump Sum"] >>

\* fee_data: <<code, name, fee, type>> per task
fee_data(data) ==
    << [code |-> 110, name |-> "Schematic Design Phase",
        fee |-> Get(data, "fee_sd", T_XXX), type |-> "Lump Sum"],
       [code |-> 120, name |-> "Design Development",
        fee |-> Get(data, "fee_dd", T_XXX), type |-> "Lump Sum"],
       [code |-> 130, name |-> "Construction Documents",
        fee |-> Get(data, "fee_cd", T_XXX), type |-> "Lump Sum"],
       [code |-> 140, name |-> "Bidding and Negotiations",
        fee |-> Get(data, "fee_bidding", T_XXX), type |-> "Lump Sum"],
       [code |-> 150, name |-> "Limited Construction Phase Services",
        fee |-> Get(data, "fee_construction", T_XXX), type |-> "Lump Sum"] >>
    \o When(GetFlag(data, "include_record_drawings"),
            << [code |-> 160, name |-> "Record Drawings",
                fee |-> Get(data, "fee_record_drawings", T_XXX), type |-> "Lump Sum"] >>)

\* fee_table.rows[i] of a table of n rows raises IndexError unless 0 <= i < n
FeeTableRaises(data) ==
    \/ Len(fee_data(data)) + 1 > num_rows(data)
    \/ num_rows(data) - 1 < 0

\* the table after the header row, the data rows (row i + 1 for entry i) and
\* the Total row (row num_rows - 1) are written, rows numbered from 1 here
FeeTable(data) ==
    LET n    == num_rows(data)
        fd   == fee_data(data)
        head == [code |-> 0, name |-> "Task Number and Name", fee |-> T_Fee, type |-> "Type"]
        tot  == [code |-> 0, name |-> "Total",
                 fee |-> T_Dollar \o calculate_total(data), type |-> ""]
        t0   == [i \in 1..n |-> IF i = 1 THEN head ELSE BlankRow]
        t1   == [i \in 1..n |->
                    IF i - 1 \in 1..Len(fd)
                    THEN [fd[i - 1] EXCEPT !.fee = T_Dollar \o fd[i - 1].fee]
                    ELSE t0[i]]
    IN  [t1 EXCEPT ![n] = tot]

\* === FEE AND EXPENSES ===
FeeSection(data) ==
    BlankLine
    \o SectionHeader("Fee and Expenses")
    \o Para("fee_intro", <<>>)
    \o BlankLine
    \o <<Item("table", "fee_table", <<>>)>>
    \o BlankLine
    \o Para("fee_text1", <<>>)
    \o BlankLine
    \o Para("fee_text2", <<>>)
    \o BlankLine
    \o Para("fee_text3", <<>>)

\* === CLOSURE ===
Closure(data) ==
    BlankLine
    \o SectionHeader("Closure")
    \o Para("closure_standard_provisions", <<Or(data.company_name, T_InsertClient)>>)
    \o BlankLine
    \o Para("invoice_text", <<>>)
    \o BlankLine
    \o Para("invoice_email", <<Get(data, "invoice_email", Underscores(27))>>)
    \o Para("invoice_copy", <<Get(data, "invoice_copy", Underscores(39))>>)
    \o BlankLine
    \o Para("proceed_text", <<>>)
    \o BlankLine
    \o Para("rfi_text", <<>>)
    \o BlankLine
    \o Para("appreciate", <<>>)
    \o BlankLine
    \o Para("Sincerely,", <<>>)
    \o BlankLine \o BlankLine
    \o Para("KIMLEY-HORN AND ASSOCIATES, INC.", <<>>)
    \o BlankLine \o BlankLine
    \o <<Item("table", "sig_table",
              <<Get(data, "project_manager", T_ProjectManager),
                Get(data, "senior_vp", T_SeniorVP)>>)>>

\* === CLIENT SIGNATURE PAGE ===
SignaturePage(data) ==
    <<Item("page_break", "", <<>>)>>
    \o Para("signature_instructions", <<>>)
    \o BlankLine
    \o Para("CORRECT CLIENT ENTITY", <<>>)
    \o BlankLine \o BlankLine
    \o Para("SIGNED", <<>>)
    \o BlankLine
    \o Para("PRINTED NAME", <<>>)
    \o BlankLine
    \o Para("TITLE", <<>>)
    \o BlankLine
    \o Para("DATE", <<>>)
    \o BlankLine \o BlankLine
    \o Para("Client's Federal Tax ID", <<>>)
    \o BlankLine
    \o Para("Client's Business License No.", <<>>)
    \o BlankLine
    \o Para("Client's Street Address", <<>>)
    \o BlankLine \o BlankLine
    \o Para("Attachment - Request for Information", <<>>)
    \o Para("Attachment - Standard Provisions", <<>>)

\* ------------------------------------------------------------------------
\* Header and footer of the section
\* ------------------------------------------------------------------------

\* len(KIMLEY_HORN_LOGO_BASE64.strip()): characters of the base64 alphabet,
\* none of them "="
LogoBase64Len == 1267

\* base64.b64decode raises binascii.Error (incorrect padding) unless the
\* characters come in groups of four; the bytes that the constant would decode
\* to are the head of a PNG file whose IDAT chunk is cut short (no IEND)
get_logo_from_base64 ==
    IF LogoBase64Len % 4 = 0
    THEN <<[bytes |-> (LogoBase64Len \div 4) * 3, png_complete |-> FALSE]>>
    ELSE <<>>

\* add_text_logo(paragraph): three runs
add_text_logo ==
    << [kind |-> "text", text |-> "Kimley", number |-> 0],
       [kind |-> "text", text |-> ">>", number |-> 0],
       [kind |-> "text", text |-> "Horn", number |-> 0] >>

\* run = p.add_run(); run.add_picture(logo_stream, ...): the picture, or, when
\* reading the image raises, the empty run followed by the text logo
add_picture(logo_stream) ==
    IF logo_stream.png_complete
    THEN << [kind |-> "picture", text |-> "", number |-> 0] >>
    ELSE << [kind |-> "text", text |-> "", number |-> 0] >> \o add_text_logo

\* add_header_with_logo without the two fallbacks to the text logo
add_header_with_logo_no_fallback(page_num) ==
    LET logo_stream == get_logo_from_base64
    IN  (IF logo_stream # <<>> /\ logo_stream[1].png_complete
         THEN << [kind |-> "picture", text |-> "", number |-> 0] >>
         ELSE <<>>)
        \o (IF page_num # 0
            THEN << [kind |-> "text", text |-> "\t", number |-> 0],
                    [kind |-> "text", text |-> "Page", number |-> page_num] >>
            ELSE <<>>)

\* add_header_with_logo(section, page_num): the runs of the header paragraph;
\* the last run is the text f"Page {page_num}"
add_header_with_logo(page_num) ==
    LET logo_stream == get_logo_from_base64
    IN  (IF logo_stream # <<>> THEN add_picture(logo_stream[1]) ELSE add_text_logo)
        \o (IF page_num # 0
            THEN << [kind |-> "text", text |-> "\t", number |-> 0],
                    [kind |-> "text", text |-> "Page", number |-> page_num] >>
            ELSE <<>>)

\* add_footer(section, text_left, text_center, text_right): the cells of the
\* one-row table, texts in cells 1, 3 and 5
add_footer(text_left, text_center, text_right) ==
    <<text_left, "", text_center, "", text_right>>

\* Body with the client signature page written before the Closure section
Body_signature_before_closure(data) ==
    LetterHead(data)
    \o ProjectUnderstanding(data)
    \o ScopeOfServices(data)
    \o MiddleSections(data)
    \o FeeSection(data)
    \o SignaturePage(data)
    \o Closure(data)

\* the paragraphs of the document, in order
Body(data) ==
    LetterHead(data)
    \o ProjectUnderstanding(data)
    \o ScopeOfServices(data)
    \o MiddleSections(data)
    \o FeeSection(data)
    \o Closure(data)
    \o SignaturePage(data)

\* create_proposal_document(data): the exception it raises (exc), or the
\* document it returns (doc); each is a sequence of at most one element
create_proposal_document(data) ==
    IF SalutationRaises(data) \/ FeeTableRaises(data)
    THEN [exc |-> <<"IndexError">>, doc |-> <<>>]
    ELSE [exc |-> <<>>,
          doc |-> <<[sections |-> 1,
                     header |-> add_header_with_logo(1),
                     footer |-> add_footer("kimley-horn.com",
                                           "200 Central Avenue Suite 600 St. Petersburg, FL 33701",
                                           "727-547-3999"),
                     body |-> Body(data), fee_table |-> FeeTable(data)]>>]


\* ------------------------------------------------------------------------
\* Delivery
\* ------------------------------------------------------------------------

T_MEPProposal == <<"M", "E", "P", "_", "P", "r", "o", "p", "o", "s", "a", "l", "_">>

T_Draft == <<"D", "r", "a", "f", "t">>

T_docx == <<".", "d", "o", "c", "x">>

\* the parts of the archive that doc.save writes for this document
DocxParts ==
    {"[Content_Types].xml", "_rels/.rels", "word/document.xml", "word/styles.xml",
     "word/header1.xml", "word/footer1.xml"}

\* buffer = BytesIO(); doc.save(buffer); buffer.seek(0)
SaveToBuffer(d) == [parts |-> DocxParts, document |-> d]

\* the download's file name
Filename(w) ==
    T_MEPProposal
    \o (IF Truthy(w.company_name) THEN Replace(w.company_name, " ", "_") ELSE T_Draft)
    \o <<"_">> \o StrftimeYmd(Now) \o T_docx

\* ------------------------------------------------------------------------
\* State
\* ------------------------------------------------------------------------


NoProgress == [state |-> "absent", value |-> 0]

\* what one run of the script renders before it reaches the button: the
\* warning and the button follow the widgets' values, and
\* st.session_state.form_data is created only if it is not there
Render(w) ==
    /\ warning' = missing_fields(w)
    /\ generate_disabled' = (missing_fields(w) # <<>>)
    /\ session_form_data' = session_form_data

\* the elements the previous run put below the button are gone
ClearRun ==
    /\ exc' = <<>>
    /\ doc' = <<>>
    /\ buffer' = <<>>
    /\ filename' = <<>>
    /\ shown' = {}
    /\ download' = <<>>

InitWith(w) ==
    /\ form = w
    /\ session_form_data = <<>>
    /\ touched = <<>>
    /\ warning = missing_fields(w)
    /\ generate_disabled = (missing_fields(w) # <<>>)
    /\ pc = "idle"
    /\ form_data = <<>>
    /\ progress_bar = NoProgress
    /\ exc = <<>>
    /\ doc = <<>>
    /\ buffer = <<>>
    /\ filename = <<>>
    /\ shown = {}
    /\ download = <<>>

\* the session starts with every widget at its default
Init == InitWith(WidgetDefaults)

\* ------------------------------------------------------------------------
\* The user edits a widget: the script re-runs with the button not pressed
\* ------------------------------------------------------------------------

\* a text input, selectbox or date input f is set to v
SetText(f, v) ==
    /\ pc = "idle"
    /\ Rendered(form, f)
    /\ form[f] # v
    /\ form' = SetWidget(form, f, v)
    /\ Render(form')
    /\ ClearRun
    /\ progress_bar' = NoProgress
    /\ pc' = "idle"
    /\ form_data' = <<>>
    /\ touched' = touched

\* the checkbox f is toggled
ToggleBox(f) ==
    /\ pc = "idle"
    /\ Rendered(form, f)
    /\ form' = SetWidget(form, f, ~form[f])
    /\ Render(form')
    /\ ClearRun
    /\ progress_bar' = NoProgress
    /\ pc' = "idle"
    /\ form_data' = <<>>
    /\ touched' = IF form[f] THEN SelectSeq(touched, LAMBDA g : g # f)
                  ELSE Append(touched, f)

\* ------------------------------------------------------------------------
\* The user clicks Generate: the script re-runs with the button pressed
\* ------------------------------------------------------------------------

\* ClickGenerate with st.session_state.form_data = form_data
ClickGenerate_stores_session ==
    /\ pc = "idle"
    /\ ~generate_disabled
    /\ warning' = missing_fields(form)
    /\ generate_disabled' = (missing_fields(form) # <<>>)
    /\ session_form_data' = <<CollectFormData(form)>>
    /\ ClearRun
    /\ form_data' = <<CollectFormData(form)>>
    /\ progress_bar' = [state |-> "shown", value |-> 0]
    /\ pc' = "try"
    /\ UNCHANGED <<form, touched>>

\* st.button(..., disabled=bool(missing_fields)) returns True; form_data is
\* collected and the progress bar is created at 0
ClickGenerate ==
    /\ pc = "idle"
    /\ ~generate_disabled
    /\ Render(form)
    /\ ClearRun
    /\ form_data' = <<CollectFormData(form)>>
    /\ progress_bar' = [state |-> "shown", value |-> 0]
    /\ pc' = "try"
    /\ UNCHANGED <<form, touched>>

RunFrame == <<form, session_form_data, touched, generate_disabled, warning, form_data>>

\* progress_bar.progress(20, ...)
Progress20 ==
    /\ pc = "try"
    /\ progress_bar' = [state |-> "shown", value |-> 20]
    /\ pc' = "assemble"
    /\ UNCHANGED <<RunFrame, exc, doc, buffer, filename, shown, download>>

\* doc = create_proposal_document(form_data)
Assemble ==
    /\ pc = "assemble"
    /\ LET r == create_proposal_document(form_data[1])
       IN  /\ exc' = r.exc
           /\ doc' = r.doc
           /\ pc' = IF r.exc # <<>> THEN "except" ELSE "p60"
    /\ UNCHANGED <<RunFrame, progress_bar, buffer, filename, shown, download>>

\* progress_bar.progress(60, ...)
Progress60 ==
    /\ pc = "p60"
    /\ progress_bar' = [state |-> "shown", value |-> 60]
    /\ pc' = "save"
    /\ UNCHANGED <<RunFrame, exc, doc, buffer, filename, shown, download>>

\* buffer = BytesIO(); doc.save(buffer); buffer.seek(0)
Save ==
    /\ pc = "save"
    /\ buffer' = <<SaveToBuffer(doc[1])>>
    /\ pc' = "p90"
    /\ UNCHANGED <<RunFrame, progress_bar, exc, doc, filename, shown, download>>

\* Progress90 with the value 9 for 90
Progress90_sets_9 ==
    /\ pc = "p90"
    /\ progress_bar' = [state |-> "shown", value |-> 9]
    /\ filename' = <<Filename(form)>>
    /\ pc' = "p100"
    /\ UNCHANGED <<RunFrame, exc, doc, buffer, shown, download>>

\* progress_bar.progress(90, ...); filename = ...
Progress90 ==
    /\ pc = "p90"
    /\ progress_bar' = [state |-> "shown", value |-> 90]
    /\ filename' = <<Filename(form)>>
    /\ pc' = "p100"
    /\ UNCHANGED <<RunFrame, exc, doc, buffer, shown, download>>

\* progress_bar.progress(100, ...)
Progress100 ==
    /\ pc = "p100"
    /\ progress_bar' = [state |-> "shown", value |-> 100]
    /\ pc' = "success"
    /\ UNCHANGED <<RunFrame, exc, doc, buffer, filename, shown, download>>

\* st.success(...)
ShowSuccess ==
    /\ pc = "success"
    /\ shown' = shown \cup {"success"}
    /\ pc' = "download"
    /\ UNCHANGED <<RunFrame, progress_bar, exc, doc, buffer, filename, download>>

\* st.download_button(...): the run ends
ShowDownload ==
    /\ pc = "download"
    /\ download' = <<[data |-> buffer[1], file_name |-> filename[1]]>>
    /\ pc' = "idle"
    /\ UNCHANGED <<RunFrame, progress_bar, exc, doc, buffer, filename, shown>>

\* HandleException that offers the download all the same
HandleException_offers_download ==
    /\ pc = "except"
    /\ progress_bar' = [state |-> "emptied", value |-> 0]
    /\ shown' = shown \cup {"error", "error_details"}
    /\ download' = <<[data |-> <<>>, file_name |-> <<>>]>>
    /\ pc' = "idle"
    /\ UNCHANGED <<RunFrame, exc, doc, buffer, filename>>

\* HandleException without progress_bar.empty()
HandleException_keeps_progress ==
    /\ pc = "except"
    /\ shown' = shown \cup {"error", "error_details"}
    /\ pc' = "idle"
    /\ UNCHANGED <<form, session_form_data, touched, generate_disabled, warning, form_data,
                   progress_bar, exc, doc, buffer, filename, download>>

\* HandleException that calls the assembler again after reporting the error
HandleException_retries ==
    /\ pc = "except"
    /\ progress_bar' = [state |-> "emptied", value |-> 0]
    /\ shown' = shown \cup {"error", "error_details"}
    /\ pc' = "assemble"
    /\ UNCHANGED <<RunFrame, exc, doc, buffer, filename, download>>

\* except Exception as e: the progress bar is emptied, the error and the
\* expander with the exception are shown; the run ends
HandleException ==
    /\ pc = "except"
    /\ progress_bar' = [state |-> "emptied", value |-> 0]
    /\ shown' = shown \cup {"error", "error_details"}
    /\ pc' = "idle"
    /\ UNCHANGED <<RunFrame, exc, doc, buffer, filename, download>>

\* the steps of the button's branch
GenerateRun ==
    \/ ClickGenerate
    \/ Progress20
    \/ Assemble
    \/ Progress60
    \/ Save
    \/ Progress90
    \/ Progress100
    \/ ShowSuccess
    \/ ShowDownload
    \/ HandleException

\* ------------------------------------------------------------------------
\* Specification: the client and project fields are edited
\* ------------------------------------------------------------------------

RECURSIVE TextsUpTo(_, _)
TextsUpTo(alphabet, n) ==
    IF n = 0 THEN {<<>>}
    ELSE LET shorter == TextsUpTo(alphabet, n - 1)
         IN  shorter \cup {Append(t, c) : t \in shorter, c \in alphabet}

\* what the user types as the client contact
ContactValues == TextsUpTo({" ", "J", "S"}, MaxLen)

\* what the user types into the other fields of the Client & Project tab
NameValues == {Empty, <<" ">>, <<"A">>}

EditContact == \E v \in ContactValues : SetText("client_contact", v)

EditRequired ==
    \E f \in {"company_name", "project_name", "project_address", "project_city"},
       v \in NameValues : SetText(f, v)

EditAddress == \E f \in {"address1", "address2"}, v \in {Empty, <<"A">>} : SetText(f, v)

Next == EditContact \/ EditRequired \/ EditAddress \/ GenerateRun

Spec == Init /\ [][Next]_vars


\* ------------------------------------------------------------------------
\* Properties of the Generate action (specification Spec)
\* ------------------------------------------------------------------------

\* the widgets the required-field check reads, with the names it shows
RequiredLabel ==
    [client_contact |-> "Client Contact", company_name |-> "Company Name",
     project_name |-> "Project Name", project_address |-> "Project Address",
     project_city |-> "Project City"]

EmptyRequired == {f \in DOMAIN RequiredLabel : form[f] = <<>>}

\* a run of the button's branch has ended
RunEnded == pc = "idle" /\ form_data # <<>>

\* C1 (as claimed): every click on an enabled Generate button ends in success:
\* the assembler does not raise, the except branch is never entered, and the
\* run ends with a saved, non-empty buffer.
C1_EveryEnabledClickSucceeds ==
    /\ pc # "except"
    /\ exc = <<>>
    /\ RunEnded => (buffer # <<>> /\ "error" \notin shown /\ "success" \in shown)

\* C3: the Generate button is disabled exactly when a required field is empty,
\* and the warning then lists exactly the empty required fields, once each.
C3_DisabledIffRequiredFieldEmpty ==
    /\ generate_disabled <=> (EmptyRequired # {})
    /\ {warning[i] : i \in 1..Len(warning)} = {RequiredLabel[f] : f \in EmptyRequired}
    /\ Len(warning) = Cardinality(EmptyRequired)

C3_Witness ==
    /\ generate_disabled
    /\ Len(warning) = 2
    /\ form.client_contact # <<>>
    /\ Strip(form.company_name) = <<>> /\ form.company_name # <<>>

C8_ExceptionIsReported ==
    exc # <<>> =>
        /\ pc \in {"except", "idle"}
        /\ buffer = <<>> /\ download = <<>> /\ "success" \notin shown
        /\ pc = "idle" =>
               /\ progress_bar.state = "emptied"
               /\ {"error", "error_details"} \subseteq shown
               /\ ENABLED ClickGenerate

C8_Witness == exc = <<"IndexError">> /\ pc = "idle" /\ "error_details" \in shown

\* C9: no step of a Generate run, successful or failed, changes a widget's
\* value or st.session_state.form_data.
C9_GenerateLeavesFormUnchanged ==
    [][(pc # "idle" \/ pc' # "idle") =>
           (form' = form /\ session_form_data' = session_form_data)]_vars

C9_Witness ==
    /\ RunEnded
    /\ form # WidgetDefaults
    /\ session_form_data = <<>>
    /\ form_data[1].client_contact = form.client_contact

\* C10: a download button is on the page only in a run in which the button
\* was pressed with no required field missing, the assembler returned a
\* document and the document was saved; its data is that buffer.
C10_DownloadOnlyAfterSuccess ==
    download # <<>> =>
        /\ form_data # <<>>
        /\ ~generate_disabled /\ warning = <<>> /\ EmptyRequired = {}
        /\ exc = <<>> /\ doc # <<>> /\ buffer # <<>>
        /\ "success" \in shown /\ "error" \notin shown
        /\ download[1].data = buffer[1]

C10_Witness == download # <<>> /\ progress_bar.value = 100


\* ------------------------------------------------------------------------
\* Specification: the fees are edited, on a form whose client and project
\* fields have been filled in
\* ------------------------------------------------------------------------

T_JS == <<"J", " ", "S">>

FilledForm ==
    [WidgetDefaults EXCEPT !.client_contact = T_JS, !.company_name = <<"A">>,
                           !.project_name = <<"A">>, !.project_address = <<"A">>,
                           !.project_city = <<"A">>]

InitFees == InitWith(FilledForm)

\* what the user types into the fee of Task 110
FeeSamples ==
    {Empty, <<"0">>, <<"7">>, <<"1", "0", "0", "0">>, <<"0", ".", "5">>, <<"1", ".", "5">>,
     <<"2", ".", "5">>, <<"-", "5", "0", "0">>, <<"a", "b", "c">>,
     <<"$", "1", ",", "0", "0", "0">>}

\* what the user types into the other fees
FeeValues ==
    [fee_dd |-> {Empty, <<"0">>, <<"2", ".", "5">>},
     fee_cd |-> {Empty, <<"0">>},
     fee_bidding |-> {Empty, <<"0">>},
     fee_construction |-> {Empty, <<"0">>, <<"1", "0", "0", "0">>},
     fee_record_drawings |-> {Empty, <<"0">>, <<"7">>}]

EditFeeSD == \E v \in FeeSamples : SetText("fee_sd", v)

EditFee == \E f \in DOMAIN FeeValues : \E v \in FeeValues[f] : SetText(f, v)

ToggleRecordDrawings == ToggleBox("include_record_drawings")

\* the contact is retyped: a name, or a blank
RetypeContact == \E v \in {T_JS, <<" ">>} : SetText("client_contact", v)

NextFees == EditFeeSD \/ EditFee \/ ToggleRecordDrawings \/ RetypeContact \/ GenerateRun

SpecFees == InitFees /\ [][NextFees]_vars

\* ------------------------------------------------------------------------
\* Properties of the fee table and of the task order (specification SpecFees)
\* ------------------------------------------------------------------------

\* the rows of the generated table that belong to a task
TaskRows == SelectSeq(doc[1].fee_table, LAMBDA r : r.code # 0)

\* the amount a fee cell shows, as a decimal (ok = FALSE: the cell shows none)
CellAmount(cell) == ParseFloat(Remove(Remove(cell, "$"), ","))

RECURSIVE SumOfRows(_)
SumOfRows(rows) ==
    IF rows = <<>> THEN 0
    ELSE LET x == CellAmount(Head(rows).fee)
         IN  (IF x.ok THEN (IF x.neg THEN 0 - x.num ELSE x.num) \div x.den ELSE 0)
             + SumOfRows(Tail(rows))

\* no task row shows a negative amount, and every amount shown is whole
RowsNonNegative ==
    \A i \in 1..Len(TaskRows) :
        LET x == CellAmount(TaskRows[i].fee) IN x.ok => (~x.neg /\ x.den = 1)

EveryRowHasAmount == \A i \in 1..Len(TaskRows) : CellAmount(TaskRows[i].fee).ok

TotalCell == doc[1].fee_table[Len(doc[1].fee_table)].fee

\* C2 (as claimed): for non-negative fees the Total cell is the sum of the
\* amounts of the task rows, also when that sum is 0.
C2_TotalIsSumEvenWhenZero ==
    (doc # <<>> /\ RowsNonNegative /\ EveryRowHasAmount) =>
        TotalCell = <<"$">> \o Group3(NatToDigits(SumOfRows(TaskRows)))

\* C2 (amended): for non-negative fees the Total cell is the sum of the
\* whole-dollar amounts shown in the task rows (a row that shows no amount adds
\* nothing) when that sum is greater than 0, and the blank "___________" when
\* the sum is 0.
C2_TotalIsSumOrBlank ==
    (doc # <<>> /\ RowsNonNegative) =>
        TotalCell = IF SumOfRows(TaskRows) > 0
                    THEN <<"$">> \o Group3(NatToDigits(SumOfRows(TaskRows)))
                    ELSE <<"$">> \o Underscores(11)

C2_Witness ==
    /\ doc # <<>>
    /\ RowsNonNegative
    /\ Len(TaskRows) = 6
    /\ TaskRows[1].fee = <<"$", "2">>
    /\ TaskRows[5].fee = <<"$", "0">>
    /\ TaskRows[6].fee = <<"$", "7">>
    /\ TotalCell = <<"$", "9">>

\* the task codes of the headings of the Scope of Services, in document order
HeadingCodes ==
    LET hs == SelectSeq(doc[1].body, LAMBDA it : it.kind = "task_heading")
    IN  [i \in 1..Len(hs) |-> hs[i].code]

RowCodes == [i \in 1..Len(TaskRows) |-> TaskRows[i].code]

StrictlyAscending(codes) == \A i, j \in 1..Len(codes) : i < j => codes[i] < codes[j]

\* C5: the task headings of the narrative and the task rows of the fee table
\* are in strictly ascending task-code order, 110 first and 160 (when included)
\* last.
C5_TasksInAscendingCodeOrder ==
    doc # <<>> =>
        /\ StrictlyAscending(HeadingCodes) /\ StrictlyAscending(RowCodes)
        /\ HeadingCodes[1] = 110 /\ RowCodes[1] = 110
        /\ form.include_record_drawings =>
               (HeadingCodes[Len(HeadingCodes)] = 160 /\ RowCodes[Len(RowCodes)] = 160)

C5_Witness ==
    /\ doc # <<>>
    /\ touched = <<"include_record_drawings">>
    /\ Len(HeadingCodes) = 6 /\ Len(RowCodes) = 6
    /\ form.fee_record_drawings # <<>>


\* ------------------------------------------------------------------------
\* Specification: the assumptions are edited, on a form whose client and
\* project fields have been filled in
\* ------------------------------------------------------------------------

InitAssumptions == InitWith(FilledForm)

ToggleAssumption ==
    \E f \in {"is_new_building", "is_renovation", "separate_buildings", "core_and_shell",
              "lightning_included"} : ToggleBox(f)

EditStories == \E v \in {Empty, <<"3">>} : SetText("building_stories", v)

NextAssumptions == ToggleAssumption \/ EditStories \/ RetypeContact \/ GenerateRun

SpecAssumptions == InitAssumptions /\ [][NextAssumptions]_vars

\* ------------------------------------------------------------------------
\* Properties of the Project Understanding section (specification
\* SpecAssumptions)
\* ------------------------------------------------------------------------

SectionStart(body, name) ==
    CHOOSE i \in 1..Len(body) : body[i].kind = "section_header" /\ body[i].id = name

\* the paragraphs of the Project Understanding and Assumptions section
UnderstandingItems ==
    SubSeq(doc[1].body,
           SectionStart(doc[1].body, "Project Understanding and Assumptions") + 1,
           SectionStart(doc[1].body, "Scope of Services") - 1)

\* the sentences of its bullet list, in document order
UnderstandingBullets ==
    LET bs == SelectSeq(UnderstandingItems, LAMBDA it : it.kind = "bullet")
    IN  [i \in 1..Len(bs) |-> bs[i].id]

\* the flags of the form that have a sentence of the bullet list, each with
\* its value: a checked box, a filled-in text, a rating other than the default
FlagOn ==
    [is_new_building |-> form.is_new_building,
     is_renovation |-> form.is_renovation,
     building_stories |-> form.building_stories # <<>>,
     construction_phases |-> form.construction_phases # <<>>,
     separate_buildings |-> form.separate_buildings,
     core_and_shell |-> form.core_and_shell,
     leed_rating |-> form.leed_rating \notin {<<>>, T_NotApplicable},
     construction_budget |-> form.construction_budget # <<>>,
     unit_types |-> form.unit_types # <<>>,
     typical_floors |-> form.typical_floors # <<>>,
     retail_core_shell |-> form.retail_core_shell,
     existing_electrical_renovation |-> form.existing_electrical_renovation,
     power_receptacles |-> form.power_receptacles,
     core_shell_electrical |-> form.core_shell_electrical,
     lighting_coordination |-> form.lighting_coordination,
     lightning_protection_included |-> form.lightning_included,
     emergency_generator_included |-> form.generator_included,
     ev_charging_included |-> form.ev_included,
     fire_alarm |-> form.fire_alarm,
     technology_design |-> form.technology_design,
     weekly_meetings |-> form.weekly_meetings]

\* the sentence an option contributes when it is not included
ExcludedSentence ==
    [lightning_protection_included |-> "lightning_protection_excluded",
     emergency_generator_included |-> "emergency_generator_excluded",
     ev_charging_included |-> "ev_charging_excluded"]

\* the bullets that introduce a group and are always there
GroupBullets ==
    {"hvac_basis", "plumbing_basis", "electrical_basis", "fire_protection_basis", "revit_intro"}

BulletSet == {UnderstandingBullets[i] : i \in 1..Len(UnderstandingBullets)}

\* C6 (as claimed): apart from the group introductions, the bullets of the
\* section are exactly the sentences of the flags that are true; a false flag
\* contributes no bullet.
C6_OnlyTrueFlagsContribute ==
    doc # <<>> => BulletSet \ GroupBullets = {f \in DOMAIN FlagOn : FlagOn[f]}

\* C6 (amended): apart from the group introductions, the bullets of the section
\* are exactly the sentences of the flags that are true, together with the
\* 'excluded' sentence of each of lightning protection, emergency generator and
\* EV charging that is not included.
C6_TrueFlagsAndExclusions ==
    doc # <<>> =>
        /\ BulletSet \ GroupBullets =
               {f \in DOMAIN FlagOn : FlagOn[f]}
               \cup {ExcludedSentence[o] : o \in {o \in DOMAIN ExcludedSentence : ~FlagOn[o]}}
        /\ GroupBullets \subseteq BulletSet

C6_Witness ==
    /\ doc # <<>>
    /\ ~form.is_new_building /\ form.is_renovation /\ form.core_and_shell
    /\ form.building_stories # <<>>
    /\ form.lightning_included
    /\ "lightning_protection_included" \in BulletSet

\* the sentences of the flags in checklist order: the order of the
\* conditionals of the assembler
ChecklistOrder ==
    <<"is_new_building", "is_renovation", "building_stories", "construction_phases",
      "separate_buildings", "core_and_shell", "leed_rating", "construction_budget",
      "unit_types", "typical_floors", "retail_core_shell", "existing_electrical_renovation",
      "power_receptacles", "core_shell_electrical", "lighting_coordination",
      "lightning_protection_included", "lightning_protection_excluded",
      "emergency_generator_included", "emergency_generator_excluded",
      "ev_charging_included", "ev_charging_excluded", "fire_alarm", "technology_design",
      "weekly_meetings">>

ChecklistIndex(id) == CHOOSE i \in 1..Len(ChecklistOrder) : ChecklistOrder[i] = id

\* the flag sentences of the generated section, in document order
FlagBullets ==
    SelectSeq(UnderstandingBullets,
              LAMBDA id : \E i \in 1..Len(ChecklistOrder) : ChecklistOrder[i] = id)

\* C7: the flag sentences of a generated document are in checklist order,
\* whatever the order in which the boxes were checked.
C7_BulletsInChecklistOrder ==
    doc # <<>> =>
        \A i, j \in 1..Len(FlagBullets) :
            i < j => ChecklistIndex(FlagBullets[i]) < ChecklistIndex(FlagBullets[j])

C7_Witness ==
    /\ doc # <<>>
    /\ touched = <<"core_and_shell", "is_renovation", "is_new_building">>
    /\ form.building_stories # <<>>

\* ------------------------------------------------------------------------
\* Specification: the names and the proposal date are edited, on a filled-in
\* form
\* ------------------------------------------------------------------------

T_AcmeCo == <<"A", "c", "m", "e", " ", "C", "o">>

\* a project name of 32 characters
T_LongProject ==
    <<"B", "a", "y", "f", "r", "o", "n", "t", " ", "M", "e", "d", "i", "c", "a", "l", " ", "O", "f", "f", "i", "c", "e", " ", "B", "u", "i", "l", "d", "i", "n", "g">>

\* the days the user picks as the proposal date: today and the day before
ProposalDates == {Now, [year |-> 2024, month |-> 10, day |-> 14]}

InitDelivery == InitWith(FilledForm)

EditNames ==
    \/ \E v \in {<<"A">>, T_AcmeCo} : SetText("company_name", v)
    \/ \E v \in {<<"A">>, <<"B", " ", "C">>, T_LongProject} : SetText("project_name", v)

EditProposalDate == \E d \in ProposalDates : SetText("proposal_date", d)

NextDelivery == EditNames \/ EditProposalDate \/ RetypeContact \/ GenerateRun

SpecDelivery == InitDelivery /\ [][NextDelivery]_vars

\* ------------------------------------------------------------------------
\* Properties of the download (specification SpecDelivery)
\* ------------------------------------------------------------------------

\* the first n characters of t
Take(t, n) == SubSeq(t, 1, IF Len(t) < n THEN Len(t) ELSE n)

\* C11 (as claimed): the file name is built from the project name, its spaces
\* replaced by underscores and cut to its first 30 characters, followed by the
\* proposal date of the form as YYYYMMDD.
C11_FilenameFromProjectAndProposalDate ==
    filename # <<>> =>
        filename[1] = T_MEPProposal \o Take(Replace(form.project_name, " ", "_"), 30)
                      \o <<"_">> \o StrftimeYmd(form.proposal_date) \o T_docx

\* ------------------------------------------------------------------------
\* Properties of the amounts of the fee table (specification SpecFees)
\* ------------------------------------------------------------------------

\* the widget that holds the fee of a task
FeeWidget ==
    [c \in {110, 120, 130, 140, 150, 160} |->
        CASE c = 110 -> "fee_sd" [] c = 120 -> "fee_dd" [] c = 130 -> "fee_cd"
          [] c = 140 -> "fee_bidding" [] c = 150 -> "fee_construction"
          [] c = 160 -> "fee_record_drawings"]

\* t is an integer written with a comma before every group of three digits:
\* an optional minus sign, no other character than digits and commas, commas
\* exactly at every fourth place from the right, no leading zero
IsGroupedInteger(t) ==
    LET m == IF t # <<>> /\ Head(t) = "-" THEN Tail(t) ELSE t
    IN  /\ m # <<>>
        /\ \A i \in 1..Len(m) :
               IF (Len(m) - i + 1) % 4 = 0 THEN m[i] = "," ELSE IsDigit(m[i])
        /\ IsDigit(m[1])
        /\ Len(m) > 1 => m[1] # "0"

\* the user typed a whole number: digits only
IsWholeNumber(t) == t # <<>> /\ \A i \in 1..Len(t) : IsDigit(t[i])

\* the cells of the fee table that show an amount: task rows and Total row
AmountCells ==
    {doc[1].fee_table[i].fee : i \in {i \in 2..Len(doc[1].fee_table) :
                                          CellAmount(doc[1].fee_table[i].fee).ok}}

\* for a whole-number input the digits of the task's cell are the input
WholeInputsShown ==
    \A i \in 1..Len(TaskRows) :
        LET typed == form[FeeWidget[TaskRows[i].code]]
        IN  IsWholeNumber(typed) =>
                DigitsToNat(Remove(Remove(Remove(TaskRows[i].fee, "$"), " "), ","))
                    = DigitsToNat(typed)

\* C12 (as claimed): every cell that shows an amount shows "$ " (dollar sign,
\* space) and then the integer with thousands separators; for a whole-number
\* input the digits are those of the input.
C12_DollarSpaceBeforeAmount ==
    doc # <<>> =>
        /\ \A cell \in AmountCells :
               /\ Len(cell) > 2 /\ cell[1] = "$" /\ cell[2] = " "
               /\ IsGroupedInteger(SubSeq(cell, 3, Len(cell)))
        /\ WholeInputsShown

\* C12 (amended): every cell that shows an amount shows "$", with no space
\* after it, and then the integer with thousands separators; for a
\* whole-number input the digits are those of the input.
C12_DollarBeforeAmount ==
    doc # <<>> =>
        /\ \A cell \in AmountCells :
               /\ Len(cell) > 1 /\ cell[1] = "$"
               /\ IsGroupedInteger(Tail(cell))
        /\ WholeInputsShown

C12_Witness ==
    /\ doc # <<>>
    /\ form.fee_sd = <<"1", "0", "0", "0">>
    /\ form.fee_construction = <<"1", "0", "0", "0">>
    /\ TaskRows[1].fee = <<"$", "1", ",", "0", "0", "0">>
    /\ TotalCell = <<"$", "2", ",", "0", "0", "0">>

\* ------------------------------------------------------------------------
\* The tasks of one document (specification SpecFees)
\* ------------------------------------------------------------------------

HeadingSet == {HeadingCodes[i] : i \in 1..Len(HeadingCodes)}

RowSet == {RowCodes[i] : i \in 1..Len(RowCodes)}

\* the sum of the fees that form_data holds for the tasks of codes (a fee that
\* is no number counts as nothing)
RECURSIVE SumOfTasks(_)
SumOfTasks(codes) ==
    IF codes = <<>> THEN 0
    ELSE LET x == CellAmount(form_data[1][FeeWidget[Head(codes)]])
         IN  (IF x.ok THEN (IF x.neg THEN 0 - x.num ELSE x.num) \div x.den ELSE 0)
             + SumOfTasks(Tail(codes))

\* C13: the tasks with a heading in the Scope of Services, the tasks with a row
\* in the fee table and the tasks whose fees make the total are the same set:
\* Tasks 110 to 150, and Task 160 exactly when record drawings are included.
C13_SameTasksInScopeTableAndTotal ==
    doc # <<>> =>
        /\ HeadingSet = RowSet
        /\ HeadingSet = {110, 120, 130, 140, 150}
                        \cup (IF form.include_record_drawings THEN {160} ELSE {})
        /\ TotalCell = IF SumOfTasks(HeadingCodes) > 0
                       THEN <<"$">> \o Group3(NatToDigits(SumOfTasks(HeadingCodes)))
                       ELSE <<"$">> \o Underscores(11)

C13_Witness ==
    /\ doc # <<>>
    /\ form.include_record_drawings
    /\ form.fee_record_drawings = <<"7">>
    /\ form.fee_sd = <<"1", "0", "0", "0">>
    /\ 160 \in HeadingSet /\ 160 \in RowSet
    /\ TotalCell = <<"$", "1", ",", "0", "0", "7">>

\* ------------------------------------------------------------------------
\* Layout of the generated document (specification SpecDelivery)
\* ------------------------------------------------------------------------

\* the places of the explicit page breaks in the body
PageBreaks == {i \in 1..Len(doc[1].body) : doc[1].body[i].kind = "page_break"}

\* the pages the document has at least: an explicit break starts a new page
NumPages == Cardinality(PageBreaks) + 1

\* the run of the header that carries the page number
PageRun == doc[1].header[Len(doc[1].header)]

\* the page number the header shows on page n: a field follows the page, a
\* text run shows the number written into it
PageNumberShown(n) == IF PageRun.kind = "page_field" THEN n ELSE PageRun.number

\* C14 (as claimed): header and footer are those of the one section, and on
\* page n the header shows page number n.
C14_HeaderShowsPageNumber ==
    doc # <<>> =>
        /\ doc[1].sections = 1
        /\ doc[1].header # <<>> /\ doc[1].footer # <<>>
        /\ \A n \in 1..NumPages : PageNumberShown(n) = n

\* the runs of the header that draw the wordmark: pictures and non-empty
\* texts before the tab of the page number
WordmarkRuns ==
    SelectSeq(doc[1].header,
              LAMBDA r : r.kind = "picture"
                         \/ (r.kind = "text" /\ r.text \notin {"", "\t", "Page"}))

PlaceOf(id) == CHOOSE i \in 1..Len(doc[1].body) : doc[1].body[i].id = id

HasItem(id) == \E i \in 1..Len(doc[1].body) : doc[1].body[i].id = id

\* C18: one section and one explicit page break; the client signature lines
\* come after the break, the fee table, the Closure section and the
\* Kimley-Horn signature table before it.
C18_SignaturePageAfterTheOnlyBreak ==
    doc # <<>> =>
        /\ doc[1].sections = 1
        /\ Cardinality(PageBreaks) = 1
        /\ \A id \in {"SIGNED", "PRINTED NAME", "TITLE", "DATE"} :
               HasItem(id) /\ \A b \in PageBreaks : b < PlaceOf(id)
        /\ \A id \in {"fee_table", "Closure", "sig_table"} :
               HasItem(id) /\ \A b \in PageBreaks : PlaceOf(id) < b

C18_Witness ==
    /\ doc # <<>>
    /\ form.project_name = T_LongProject
    /\ PageBreaks # {}
    /\ HasItem("SIGNED") /\ HasItem("sig_table")

\* ------------------------------------------------------------------------
\* The steps of a Generate run (specification SpecDelivery)
\* ------------------------------------------------------------------------

\* C15: the assembler is called only as the step after progress 20 of a run,
\* a run starts only from a click on the enabled button, and after a failure
\* the script only reports it and waits: nothing calls the assembler again
\* but a new click.
C15_AssemblerOncePerClick ==
    [][/\ (pc' = "try" /\ pc # "try") => (pc = "idle" /\ ~generate_disabled)
       /\ (pc' = "assemble" /\ pc # "assemble") => pc = "try"
       /\ (pc = "assemble" /\ pc' # "assemble") =>
              (pc' \in {"except", "p60"} /\ (doc' # <<>> \/ exc' # <<>>))
       /\ (pc \notin {"assemble", "idle"}) => (doc' = doc /\ exc' = exc)
       /\ (pc = "except" /\ pc' # "except") => pc' = "idle"]_vars

C15_Witness ==
    /\ RunEnded
    /\ exc # <<>> /\ doc = <<>>
    /\ progress_bar.state = "emptied"
    /\ ~generate_disabled

\* what is on the page and in the run's variables follows the order of the
\* steps: each result is there only once the steps before it are done
StepsInOrder ==
    /\ progress_bar.state = "shown" => form_data # <<>>
    /\ doc # <<>> => (exc = <<>> /\ progress_bar.value >= 20)
    /\ (progress_bar.state = "shown" /\ progress_bar.value >= 60) => doc # <<>>
    /\ buffer # <<>> => (doc # <<>> /\ progress_bar.value >= 60)
    /\ (progress_bar.state = "shown" /\ progress_bar.value >= 90) => buffer # <<>>
    /\ filename # <<>> => (buffer # <<>> /\ progress_bar.value >= 90)
    /\ "success" \in shown => progress_bar.value = 100
    /\ download # <<>> => "success" \in shown

\* C20: in one run the steps come in the order collect, 0, 20, assembly, 60,
\* save, 90 and file name, 100, success, download; the progress shown never
\* decreases; 100 and the success message need a document and a saved buffer.
C20_StepsInOrderProgressNeverDecreases ==
    /\ []StepsInOrder
    /\ [][(pc # "idle" /\ progress_bar.state = "shown" /\ progress_bar'.state = "shown")
              => progress_bar'.value >= progress_bar.value]_vars
    /\ []((progress_bar.value = 100 \/ "success" \in shown) =>
              (doc # <<>> /\ buffer # <<>> /\ exc = <<>>))

C20_Witness ==
    /\ pc = "download"
    /\ progress_bar = [state |-> "shown", value |-> 100]
    /\ "success" \in shown
    /\ download = <<>>

\* ------------------------------------------------------------------------
\* The sign of the fees (specification SpecFees)
\* ------------------------------------------------------------------------

FeeWidgets == {FeeWidget[c] : c \in DOMAIN FeeWidget}

\* C16 (as claimed): a fee that validate_currency accepts is not negative, so
\* neither the total of the form, nor a fee row, nor the total of the document
\* holds a negative amount.
C16_NoNegativeAmountAccepted ==
    /\ \A f \in FeeWidgets :
           LET v == validate_currency(form[f])
           IN  (Truthy(form[f]) /\ v.is_valid) => ~ParseFloat(v.cleaned).neg
    /\ form_total(form).valid_fees => ~form_total(form).total.neg
    /\ doc # <<>> =>
           \A i \in 2..Len(doc[1].fee_table) :
               LET x == CellAmount(doc[1].fee_table[i].fee) IN x.ok => ~x.neg

\* ------------------------------------------------------------------------
\* The rows of the fee table (specification SpecFees)
\* ------------------------------------------------------------------------

\* C21: the fee table is one header row, one row per included task (5, or 6
\* with Record Drawings) and the Total row last: 7 or 8 rows, all written, no
\* task row replaced by the Total row; writing the rows never fails (a run
\* that ends without a document had a contact without a word).
C21_FeeTableRowsAllWritten ==
    /\ doc # <<>> =>
           LET t == doc[1].fee_table
               tasks == IF form.include_record_drawings
                        THEN <<110, 120, 130, 140, 150, 160>>
                        ELSE <<110, 120, 130, 140, 150>>
           IN  /\ Len(t) = Len(tasks) + 2
               /\ t[1].name = "Task Number and Name" /\ t[1].code = 0
               /\ t[Len(t)].name = "Total" /\ t[Len(t)].code = 0
               /\ \A i \in 2..(Len(t) - 1) : t[i].code = tasks[i - 1]
               /\ \A i \in 1..Len(t) : t[i] # BlankRow /\ t[i].name # ""
    /\ (RunEnded /\ doc = <<>>) => (exc = <<"IndexError">> /\ Split(form.client_contact) = <<>>)

C21_Witness ==
    /\ doc # <<>>
    /\ form.include_record_drawings
    /\ Len(doc[1].fee_table) = 8
    /\ doc[1].fee_table[7].code = 160
    /\ doc[1].fee_table[8].name = "Total"

\* C22 (as claimed): when every fee passes validate_currency, the total shown
\* on the Fee Summary tab and the Total cell of the document are the same
\* amount, also for fees with a fractional part.
C22_FormTotalIsDocumentTotal ==
    (doc # <<>> /\ form_total(form).valid_fees) =>
        TotalCell = <<"$">> \o (IF FloatPositive(form_total(form).total)
                                THEN FormatComma0f(form_total(form).total)
                                ELSE Underscores(11))

\* C28 (as claimed): every fee cell of a task row holds a currency-formatted
\* number or the placeholder XXX after the "$"; a fee that fails
\* validate_currency is reported on the form and its text is not in the
\* document.
C28_FeeCellsAreNumbersOrXXX ==
    /\ \A f \in FeeWidgets :
           (Rendered(form, f) /\ Truthy(form[f]) /\ ~validate_currency(form[f]).is_valid)
               => ~form_total(form).valid_fees
    /\ doc # <<>> =>
           \A i \in 1..Len(TaskRows) :
               /\ Len(TaskRows[i].fee) > 1 /\ TaskRows[i].fee[1] = "$"
               /\ \/ Tail(TaskRows[i].fee) = T_XXX
                  \/ IsGroupedInteger(Tail(TaskRows[i].fee))

\* ------------------------------------------------------------------------
\* Specification SpecOptions: the Included/Excluded checkboxes of the
\* Electrical and Fire Protection expanders, on a form whose required
\* project fields have been filled in
\* ------------------------------------------------------------------------

NextOptions ==
    \/ \E f \in {"lightning_included", "lightning_excluded", "generator_included",
                 "ev_included", "fire_pump_included"} : ToggleBox(f)
    \/ RetypeContact
    \/ GenerateRun

SpecOptions == InitAssumptions /\ [][NextOptions]_vars

\* the number of paragraphs of the document that carry the sentence id
CountItem(id) == Cardinality({i \in 1..Len(doc[1].body) : doc[1].body[i].id = id})

\* the two sentences of each option
OptionSentences ==
    [lightning_protection |-> <<"lightning_protection_included", "lightning_protection_excluded">>,
     emergency_generator |-> <<"emergency_generator_included", "emergency_generator_excluded">>,
     ev_charging |-> <<"ev_charging_included", "ev_charging_excluded">>,
     fire_pump |-> <<"fire_pump_included", "fire_pump_excluded">>]

\* C23: for lightning protection, emergency generator, EV charging and fire
\* pump every generated document holds exactly one of the option's two
\* sentences, and the 'included' one exactly when the option's value in the
\* form data is 'Included'.
C23_OneSentencePerOption ==
    doc # <<>> =>
        \A o \in DOMAIN OptionSentences :
            /\ CountItem(OptionSentences[o][1]) + CountItem(OptionSentences[o][2]) = 1
            /\ CountItem(OptionSentences[o][1]) = 1 <=> form_data[1][o] = "Included"

C23_Witness ==
    /\ doc # <<>>
    /\ form_data[1].lightning_protection = "Included"
    /\ form_data[1].fire_pump = "Excluded"
    /\ form_data[1].ev_charging = "Included"
    /\ form.lightning_excluded
    /\ CountItem("lightning_protection_included") = 1
    /\ CountItem("fire_pump_excluded") = 1

\* ------------------------------------------------------------------------
\* Specification SpecSystems: the checkbox groups of the HVAC system, the
\* exhaust system and the Revit LOD, on a form whose required project fields
\* have been filled in
\* ------------------------------------------------------------------------

NextSystems ==
    \/ \E f \in {"hvac_vrf", "hvac_split_dx", "exhaust_dedicated_roof", "exhaust_through_oa",
                 "lod_300", "lod_350"} : ToggleBox(f)
    \/ RetypeContact
    \/ GenerateRun

SpecSystems == InitAssumptions /\ [][NextSystems]_vars

\* the catalog of each group in its order, each member with its checkbox
HvacCatalog ==
    << <<"Centralized Chilled Water", "hvac_centralized_chilled">>,
       <<"Condenser Water", "hvac_condenser">>,
       <<"Rooftop Units with VAV", "hvac_rooftop_vav">>,
       <<"Rooftop Units without VAV", "hvac_rooftop_no_vav">>,
       <<"VRF", "hvac_vrf">>,
       <<"Split DX", "hvac_split_dx">> >>

ExhaustCatalog ==
    << <<"Dedicated Roof Fan", "exhaust_dedicated_roof">>,
       <<"Individual Fans", "exhaust_individual">>,
       <<"Through OA Unit", "exhaust_through_oa">> >>

LodCatalog ==
    << << <<"2", "0", "0">>, "lod_200">>, << <<"3", "0", "0">>, "lod_300">>,
       << <<"3", "5", "0">>, "lod_350">>, << <<"4", "0", "0">>, "lod_400">> >>

\* the member of the catalog the group stands for: the first one whose
\* checkbox is checked, the member at place default when none is
ChosenMember(catalog, default) ==
    LET checked == {i \in 1..Len(catalog) : form[catalog[i][2]]}
    IN  IF checked = {} THEN catalog[default][1]
        ELSE catalog[CHOOSE i \in checked : \A j \in checked : i <= j][1]

\* the sub-bullets of the document whose sentence is one of ids
SubBulletsOf(ids) ==
    SelectSeq(doc[1].body, LAMBDA it : it.kind = "sub_bullet" /\ it.id \in ids)

\* C24: the HVAC system, the exhaust system and the Revit LOD handed to the
\* assembler are the first checked member of the group's catalog, or the
\* group's default (Centralized Chilled Water, Dedicated Roof Fan, 300) when
\* no box is checked; the document has one HVAC and one exhaust sub-bullet,
\* the sentence of that member, and no sub-bullet with an empty text.
C24_GroupValueIsFirstCheckedOrDefault ==
    /\ form_data # <<>> =>
        /\ form_data[1].hvac_system = ChosenMember(HvacCatalog, 1)
        /\ form_data[1].exhaust_system = ChosenMember(ExhaustCatalog, 1)
        /\ form_data[1].revit_lod = ChosenMember(LodCatalog, 2)
    /\ doc # <<>> =>
        /\ SubBulletsOf({hvac_descriptions[k] : k \in DOMAIN hvac_descriptions})
               = SubBullet(hvac_descriptions[ChosenMember(HvacCatalog, 1)], <<>>)
        /\ SubBulletsOf({exhaust_descriptions[k] : k \in DOMAIN exhaust_descriptions})
               = SubBullet(exhaust_descriptions[ChosenMember(ExhaustCatalog, 1)], <<>>)
        /\ SubBulletsOf({""}) = <<>>
        /\ \E i \in 1..Len(doc[1].body) :
               /\ doc[1].body[i].id = "revit_intro"
               /\ doc[1].body[i].args = <<ChosenMember(LodCatalog, 2)>>

C24_Witness ==
    /\ doc # <<>>
    /\ form.hvac_vrf /\ form.hvac_split_dx
    /\ ~form.exhaust_dedicated_roof /\ ~form.exhaust_through_oa
    /\ ~form.lod_300 /\ form.lod_350
    /\ form_data[1].hvac_system = "VRF"
    /\ form_data[1].exhaust_system = "Dedicated Roof Fan"
    /\ form_data[1].revit_lod = <<"3", "5", "0">>
    /\ SubBulletsOf({"hvac_vrf"}) # <<>>

\* ------------------------------------------------------------------------
\* Specification SpecPairs: the two-checkbox groups of the parking garage,
\* the water service and the roof drainage, on a form whose required project
\* fields have been filled in
\* ------------------------------------------------------------------------

NextPairs ==
    \/ \E f \in {"parking_open_air", "parking_enclosed", "water_single", "water_multiple",
                 "roof_internal", "roof_gutters"} : ToggleBox(f)
    \/ RetypeContact
    \/ GenerateRun

SpecPairs == InitAssumptions /\ [][NextPairs]_vars

\* of each group: the sentence of the first option, the sentence of the second
\* option, the checkbox of the second option
PairGroups ==
    [parking_garage |-> <<"parking_garage_open_air", "parking_garage_enclosed", "parking_enclosed">>,
     water_service |-> <<"water_service_single_meter", "water_service_multiple_meters",
                         "water_multiple">>,
     roof_drainage |-> <<"roof_drainage_internal_drains", "roof_drainage_gutters_downspouts",
                         "roof_gutters">>]

\* C25 (as claimed): the document holds exactly one of the two sentences of
\* each two-checkbox group, and the sentence of the second option exactly
\* when the checkbox of the second option is checked.
C25_SecondSentenceIffSecondBoxChecked ==
    doc # <<>> =>
        \A g \in DOMAIN PairGroups :
            /\ CountItem(PairGroups[g][1]) + CountItem(PairGroups[g][2]) = 1
            /\ CountItem(PairGroups[g][2]) = 1 <=> form[PairGroups[g][3]]

\* ------------------------------------------------------------------------
\* Specification SpecDependents: the options that have dependent inputs and
\* those inputs, on a form whose required project fields have been filled in
\* ------------------------------------------------------------------------

NextDependents ==
    \/ \E f \in {"retail_core_shell", "ev_included", "sd_existing_survey",
                 "include_record_drawings"} : ToggleBox(f)
    \/ \E f \in {"ev_ready_spaces", "sd_site_visit_hours", "record_drawings_hours",
                 "fee_record_drawings"} : \E v \in {Empty, <<"5">>} : SetText(f, v)
    \/ RetypeContact
    \/ GenerateRun

SpecDependents == InitAssumptions /\ [][NextDependents]_vars

\* no paragraph of the document carries one of the sentences ids
NoItem(ids) == \A i \in 1..Len(doc[1].body) : doc[1].body[i].id \notin ids

\* C26: a dependent input does not reach the assembler's data, and so not the
\* document, while its parent option is off: the retail sub-bullets need the
\* retail core-and-shell box, the EV space counts need EV charging Included,
\* the site-visit hours need the existing-building survey, the record-drawings
\* hours and fee need the Record Drawings task.
C26_NoDependentWithoutParent ==
    /\ form_data # <<>> =>
        /\ ~form.retail_core_shell =>
               /\ ~form_data[1].retail_electrical /\ ~form_data[1].retail_plumbing
               /\ ~form_data[1].retail_food_beverage /\ ~form_data[1].retail_mechanical
        /\ ~form.ev_included =>
               form_data[1].ev_ready_spaces = Empty /\ form_data[1].ev_capable_spaces = Empty
        /\ ~form.sd_existing_survey => form_data[1].sd_site_visit_hours = Empty
        /\ ~form.include_record_drawings =>
               /\ form_data[1].record_drawings_hours = Empty
               /\ form_data[1].fee_record_drawings = Empty
    /\ doc # <<>> =>
        /\ ~form.retail_core_shell =>
               NoItem({"retail_electrical", "retail_electrical_tenant_panel", "retail_plumbing",
                       "retail_food_beverage", "retail_mechanical"})
        /\ ~form.ev_included =>
               NoItem({"ev_charging_included", "ev_ready_spaces", "ev_capable_spaces"})
        /\ ~form.sd_existing_survey => NoItem({"sd_site_visit_hours"})
        /\ ~form.include_record_drawings =>
               /\ NoItem({"record_drawings_hours"})
               /\ \A i \in 1..Len(doc[1].fee_table) : doc[1].fee_table[i].code # 160

\* a document generated with the retail box and the Record Drawings task off,
\* the retail checkboxes at their checked defaults, and the site-visit hours
\* of a checked survey in the document
C26_Witness ==
    /\ doc # <<>>
    /\ ~form.retail_core_shell /\ form.retail_electrical /\ ~form_data[1].retail_electrical
    /\ NoItem({"retail_electrical", "retail_plumbing", "record_drawings_hours"})
    /\ ~form.include_record_drawings /\ ~form.ev_included
    /\ form.sd_existing_survey /\ ~NoItem({"sd_site_visit_hours"})

\* ------------------------------------------------------------------------
\* The optional texts that a sentence takes in (specification
\* SpecAssumptions)
\* ------------------------------------------------------------------------

\* the texts taken in by the paragraph of the document with the sentence id
ArgsOf(id) == doc[1].body[PlaceOf(id)].args

\* C27 (as claimed): an optional text left blank in the form shows as the
\* assembler's placeholder in its sentence: 'XXX,000' for the total area, '3'
\* for the SD weeks, '2' for the DD review rounds, 'XX' for the EV space
\* counts, the underscore lines for the invoice email and copy-to, the default
\* names for the project manager and the senior vice president.
C27_BlankInputShowsPlaceholder ==
    doc # <<>> =>
        /\ (HasItem("building_stories") /\ form.total_area = Empty) =>
               ArgsOf("building_stories")[3] = T_XXX000
        /\ form.sd_weeks = Empty => ArgsOf("sd_weeks") = <<T_3>>
        /\ form.dd_rounds = Empty => ArgsOf("dd_rounds") = <<T_2>>
        /\ (HasItem("ev_charging_included") /\ form.ev_ready_spaces = Empty) =>
               ArgsOf("ev_charging_included")[1] = T_XX
        /\ (HasItem("ev_charging_included") /\ form.ev_capable_spaces = Empty) =>
               ArgsOf("ev_charging_included")[2] = T_XX
        /\ form.invoice_email = Empty => ArgsOf("invoice_email") = <<Underscores(27)>>
        /\ form.invoice_copy = Empty => ArgsOf("invoice_copy") = <<Underscores(39)>>
        /\ form.project_manager = Empty => ArgsOf("sig_table")[1] = T_ProjectManager
        /\ form.senior_vp = Empty => ArgsOf("sig_table")[2] = T_SeniorVP

=============================================================================
